---- MODULE Spec2Model ----
(***************************************************************************)
(* Campaign handlers, audience resolution and the batched e-mail           *)
(* dispatcher of the mini-crm backend (src/controllers/campaigns.js,       *)
(* src/services/emailService.js, src/models/*.js).                         *)
(*                                                                         *)
(* Strings are tuples of one-character strings, so that prefix, suffix and *)
(* substring tests are computed and not assumed.                           *)
(***************************************************************************)
EXTENDS Integers, Sequences, FiniteSets, Bags, TLC

\* ------------------------------------------------------------------ bounds
\* campaign ids that createCampaign can hand out
MaxCampaigns == 2
\* requests that can be in flight at the same time
MaxReqs == 2
\* longest rule sequence given to previewCampaignAudience
MaxRules == 3
\* largest audience handed to the dispatcher on its own
MaxAudience == 120
\* how many tasks of a wave get every combination of outcomes
MaxEnum == 3
\* order ids that createOrder can hand out
MaxOrders == 3

\* --------------------------------------------------------- program constants
\* emailService.js:4
BATCH_SIZE == 50

\* ------------------------------------------------------------------ strings
\* undefined and null as JS has them
Undefined == "undefined"

\* what findById gives for an id that is not stored
NoDoc == [status |-> "absent"]

NoSnapshot == [taken |-> FALSE]

Digits == <<"0", "1", "2", "3", "4", "5", "6", "7", "8", "9">>

IsDigit(ch) == \E d \in 1..10 : Digits[d] = ch

DigitVal(ch) == (CHOOSE d \in 1..10 : Digits[d] = ch) - 1

IsSpace(ch) == ch \in {" ", "\n"}

\* case folding of the 'i' option of a $regex condition
ToLowerChar(ch) ==
  CASE ch = "A" -> "a"
    [] ch = "B" -> "b"
    [] ch = "C" -> "c"
    [] ch = "F" -> "f"
    [] ch = "L" -> "l"
    [] ch = "N" -> "n"
    [] ch = "Y" -> "y"
    [] OTHER -> ch

ToLower(s) == [k \in 1..Len(s) |-> ToLowerChar(s[k])]

StartsWith(s, p) == Len(p) <= Len(s) /\ SubSeq(s, 1, Len(p)) = p

EndsWith(s, p) == Len(p) <= Len(s) /\ SubSeq(s, Len(s) - Len(p) + 1, Len(s)) = p

Contains(s, p) == \E k \in 0..(Len(s) - Len(p)) : SubSeq(s, k + 1, k + Len(p)) = p

RECURSIVE DigitsPrefixLen(_, _)
DigitsPrefixLen(s, k) ==
  IF k <= Len(s) /\ IsDigit(s[k]) THEN 1 + DigitsPrefixLen(s, k + 1) ELSE 0

RECURSIVE SpacePrefixLen(_, _)
SpacePrefixLen(s, k) ==
  IF k <= Len(s) /\ IsSpace(s[k]) THEN 1 + SpacePrefixLen(s, k + 1) ELSE 0

RECURSIVE DecimalValue(_, _, _)
DecimalValue(s, from, to) ==
  IF from > to THEN 0 ELSE DecimalValue(s, from, to - 1) * 10 + DigitVal(s[to])

\* parseFloat of a rule value: the number written by its leading digits
\* (after leading white space), or NaN when there is none. A rule value that is a JS number is
\* written here as its decimal string, which parseFloat maps to the same number.
parseFloat(v) ==
  LET sp == SpacePrefixLen(v, 1)
      n  == DigitsPrefixLen(v, sp + 1)
  IN  [isNaN |-> n = 0, num |-> DecimalValue(v, sp + 1, sp + n)]

\* ------------------------------------------------------------ segment rules
StringFields == {"name", "email", "phone", "location"}

Rule(f, o, v, l) == [field |-> f, operator |-> o, value |-> v, logicOperator |-> l]

\* campaigns.js:568-581
buildStringCondition(field, operator, value) ==
  CASE operator = "equals"     -> [kind |-> "eq", field |-> field, value |-> value]
    [] operator = "contains"   -> [kind |-> "contains", field |-> field, value |-> value]
    [] operator = "startsWith" -> [kind |-> "startsWith", field |-> field, value |-> value]
    [] operator = "endsWith"   -> [kind |-> "endsWith", field |-> field, value |-> value]
    [] OTHER                   -> [kind |-> "eq", field |-> field, value |-> value]

\* the condition of one non-spend rule (the switch of campaigns.js:483-498)
RuleCondition(rule) ==
  IF rule.field = "tags"
    THEN [kind |-> "in", field |-> "tags", value |-> rule.value]
    ELSE buildStringCondition(rule.field, rule.operator, rule.value)

\* the loop body without the look-ahead of campaigns.js:510-512: a rule that
\* does not continue a group goes to the $and list
QueryStepNoLookahead(q, rules, i) ==
  LET rule == rules[i]
      condition == RuleCondition(rule)
  IN  IF rule.field = "totalSpendings" THEN q
      ELSE IF i > 1 /\ rule.logicOperator = "OR"
        THEN [q EXCEPT !.isUsingOr = TRUE, !.group = Append(@, condition)]
      ELSE LET closed == IF q.isUsingOr /\ Len(q.group) > 0
                           THEN [and |-> Append(q.and, [kind |-> "or", conds |-> q.group]),
                                 group |-> <<>>, isUsingOr |-> FALSE]
                           ELSE q
           IN  [closed EXCEPT !.and = Append(@, condition)]

\* one rule of the loop of calculateTargetAudience; q is the loop state
\* [and: the $and list, group: the $or list of currentGroup, isUsingOr]
QueryStep(q, rules, i) ==
  LET rule == rules[i]
      condition == RuleCondition(rule)
  IN  IF rule.field = "totalSpendings" THEN q
      ELSE IF i > 1 /\ rule.logicOperator = "OR"
        THEN [q EXCEPT !.isUsingOr = TRUE, !.group = Append(@, condition)]
      ELSE LET closed == IF q.isUsingOr /\ Len(q.group) > 0
                           THEN [and |-> Append(q.and, [kind |-> "or", conds |-> q.group]),
                                 group |-> <<>>, isUsingOr |-> FALSE]
                           ELSE q
           IN  IF rule.logicOperator = "OR" /\ i < Len(rules)
                 THEN [closed EXCEPT !.isUsingOr = TRUE, !.group = Append(@, condition)]
                 ELSE [closed EXCEPT !.and = Append(@, condition)]

RECURSIVE QueryLoop(_, _, _)
QueryLoop(q, rules, i) ==
  IF i > Len(rules) THEN q ELSE QueryLoop(QueryStep(q, rules, i), rules, i + 1)

\* a builder without the flush after the loop: a group still open is lost
BuildQueryNoFlush(rules) ==
  QueryLoop([and |-> <<>>, group |-> <<>>, isUsingOr |-> FALSE], rules, 1).and

\* the $and list handed to Customer.find; the empty list is the query {}
BuildQuery(rules) ==
  LET q == QueryLoop([and |-> <<>>, group |-> <<>>, isUsingOr |-> FALSE], rules, 1)
  IN  IF q.isUsingOr /\ Len(q.group) > 0
        THEN Append(q.and, [kind |-> "or", conds |-> q.group])
        ELSE q.and

\* a stored customer against one leaf condition of the query
MatchCondition(customer, c) ==
  CASE c.kind = "in"         -> c.value \in customer.tags
    [] c.kind = "eq"         -> customer[c.field] = c.value
    [] c.kind = "contains"   -> Contains(ToLower(customer[c.field]), ToLower(c.value))
    [] c.kind = "startsWith" -> StartsWith(ToLower(customer[c.field]), ToLower(c.value))
    [] c.kind = "endsWith"   -> EndsWith(ToLower(customer[c.field]), ToLower(c.value))

MatchItem(customer, item) ==
  IF item.kind = "or"
    THEN \E k \in 1..Len(item.conds) : MatchCondition(customer, item.conds[k])
    ELSE MatchCondition(customer, item)

\* a query whose top-level list is read as a disjunction
MatchQueryAny(customer, query) == \E k \in 1..Len(query) : MatchItem(customer, query[k])

MatchQuery(customer, query) == \A k \in 1..Len(query) : MatchItem(customer, query[k])

\* a find that returns nothing for the query {}
CustomerFindNeedsCondition(custs, query) ==
  IF query = <<>> THEN <<>> ELSE SelectSeq(custs, LAMBDA c : MatchQuery(c, query))

\* Customer.find(mongoQuery): the stored customers that match, in stored order
CustomerFind(custs, query) == SelectSeq(custs, LAMBDA c : MatchQuery(c, query))

RECURSIVE SumPrices(_, _)
SumPrices(ords, customerId) ==
  IF ords = <<>> THEN 0
  ELSE (IF Head(ords).customerId = customerId THEN Head(ords).price ELSE 0)
         + SumPrices(Tail(ords), customerId)

\* Customer.js:52-66
calculateTotalSpendings(ords, customerId) == SumPrices(ords, customerId)

\* the comparisons of greaterThan and lessThan made inclusive
SpendRuleKeepsInclusive(total, rule) ==
  LET v == parseFloat(rule.value)
  IN  CASE rule.operator = "equals"      -> ~(v.isNaN \/ total # v.num)
        [] rule.operator = "greaterThan" -> ~(~v.isNaN /\ total < v.num)
        [] rule.operator = "lessThan"    -> ~(~v.isNaN /\ total > v.num)
        [] OTHER                         -> TRUE

\* one spend rule against a total: FALSE when the rule sets includeCustomer
\* to false (campaigns.js:541-551); every comparison with NaN is false in JS
SpendRuleKeeps(total, rule) ==
  LET v == parseFloat(rule.value)
  IN  CASE rule.operator = "equals"      -> ~(v.isNaN \/ total # v.num)
        [] rule.operator = "greaterThan" -> ~(~v.isNaN /\ total <= v.num)
        [] rule.operator = "lessThan"    -> ~(~v.isNaN /\ total >= v.num)
        [] OTHER                         -> TRUE

SpendingRules(rules) == SelectSeq(rules, LAMBDA r : r.field = "totalSpendings")

\* spend rules joined by OR: one rule that keeps the customer is enough
IncludeCustomerAny(customer, spendingRules, ords) ==
  \E k \in 1..Len(spendingRules) :
    SpendRuleKeeps(calculateTotalSpendings(ords, customer.id), spendingRules[k])

\* campaigns.js:539-558
IncludeCustomer(customer, spendingRules, ords) ==
  \A k \in 1..Len(spendingRules) :
    SpendRuleKeeps(calculateTotalSpendings(ords, customer.id), spendingRules[k])

\* campaigns.js:473-565
calculateTargetAudience(rules, custs, ords) ==
  LET found == CustomerFind(custs, BuildQuery(rules))
      spendingRules == SpendingRules(rules)
  IN  IF Len(spendingRules) > 0
        THEN SelectSeq(found, LAMBDA c : IncludeCustomer(c, spendingRules, ords))
        ELSE found


\* ------------------------------------------------------- message handling
Min(a, b) == IF a < b THEN a ELSE b

Trim(s) ==
  LET lead  == SpacePrefixLen(s, 1)
      IsEnd(e) == e = lead \/ (e > lead /\ ~IsSpace(s[e]))
      last  == CHOOSE e \in lead..Len(s) : IsEnd(e) /\ \A f \in (e + 1)..Len(s) : ~IsEnd(f)
  IN  SubSeq(s, lead + 1, last)

RECURSIVE LineLen(_, _)
LineLen(s, k) ==
  IF k <= Len(s) /\ s[k] # "\n" THEN 1 + LineLen(s, k + 1) ELSE 0

SubjectPrefix == <<"S", "u", "b", "j", "e", "c", "t", ":">>

\* group 1 of /^Subject:\s*(.+)\n\n([\s\S]*)$/ can start at a: a line part of
\* at least one character that is followed by an empty line
SubjectAt(s, a) ==
  LET b == a + LineLen(s, a) - 1
  IN  /\ LineLen(s, a) >= 1
      /\ b + 2 <= Len(s)
      /\ s[b + 1] = "\n"
      /\ s[b + 2] = "\n"

\* the starts the greedy \s* can leave to group 1
SubjectStarts(s) ==
  IF StartsWith(s, SubjectPrefix)
    THEN {a \in 9..(9 + SpacePrefixLen(s, 9)) : SubjectAt(s, a)}
    ELSE {}

\* campaigns.js:106-119: the subject and the body createCampaign extracts
ExtractSubject(messageContent) ==
  LET starts == SubjectStarts(messageContent)
      a == CHOOSE x \in starts : \A y \in starts : y <= x
      b == a + LineLen(messageContent, a) - 1
      g1 == SubSeq(messageContent, a, b)
      g2 == SubSeq(messageContent, b + 3, Len(messageContent))
  IN  IF starts # {} /\ g2 # <<>>
        THEN [subject |-> Trim(g1), body |-> Trim(g2)]
        ELSE [subject |-> Trim(SubSeq(messageContent, 1, Min(50, Len(messageContent)))) \o <<"(", ".", ".", ".", ")">>,
              body |-> messageContent]

\* ------------------------------------------------------------ request data
FieldNames == {"name", "email", "phone", "location", "totalSpendings", "tags"}

OperatorNames == {"equals", "contains", "startsWith", "endsWith", "greaterThan", "lessThan"}

\* campaigns.js:9-14
segmentRuleSchema(rule) ==
  /\ rule.field \in FieldNames
  /\ rule.operator \in OperatorNames
  /\ rule.logicOperator \in {"AND", "OR", "none"}

\* campaigns.js:16-22
campaignSchema(body) ==
  /\ Len(body.name) >= 2
  /\ Len(body.segmentRules) >= 1
  /\ \A k \in 1..Len(body.segmentRules) : segmentRuleSchema(body.segmentRules[k])
  /\ Len(body.message) >= 10
  /\ body.scheduledFor # "bad"

\* Campaign.js:19-23: a stored rule without logicOperator gets 'AND'
StoredRules(rules) ==
  [k \in 1..Len(rules) |->
     IF rules[k].logicOperator = "none" THEN [rules[k] EXCEPT !.logicOperator = "AND"]
                                        ELSE rules[k]]

\* Campaign.js:48-104: the document a new campaign is stored as; the schema
\* has no path for subject, so a subject given to Campaign.create is not kept
CampaignSchema(obj) ==
  [name |-> obj.name,
   segmentRules |-> StoredRules(obj.segmentRules),
   message |-> obj.message,
   status |-> obj.status,
   scheduledFor |-> IF obj.scheduledFor = Undefined THEN "null" ELSE obj.scheduledFor,
   sentAt |-> "null",
   targetAudience |-> 0,
   delivered |-> 0,
   failed |-> 0,
   communicationLog |-> <<>>]

\* StatusFor with a date in the past taken as already sent
StatusForPastSent(scheduledFor) ==
  IF scheduledFor = "past" THEN "sent"
  ELSE IF scheduledFor # Undefined THEN "scheduled" ELSE "draft"

\* campaigns.js:129, 305
StatusFor(scheduledFor) == IF scheduledFor # Undefined THEN "scheduled" ELSE "draft"

\* campaigns.js:301-308: the update findByIdAndUpdate applies to a stored doc
UpdatedDoc(doc, validatedData) ==
  [doc EXCEPT !.name = validatedData.name,
              !.segmentRules = StoredRules(validatedData.segmentRules),
              !.message = validatedData.message,
              !.scheduledFor = IF validatedData.scheduledFor = Undefined
                                 THEN @ ELSE validatedData.scheduledFor,
              !.status = StatusFor(validatedData.scheduledFor)]

\* --------------------------------------------------------------- dispatcher
Outcomes == {"ok", "fail", "throw"}

Has(obj, f) == f \in DOMAIN obj

\* emailService.js:20-51: personalization reads campaign.message and
\* campaign.subject; either one missing raises a TypeError inside the task
PersonalizationThrows(campaign) == ~Has(campaign, "message") \/ ~Has(campaign, "subject")

\* emailService.js:17-64: the value one task of a wave is fulfilled with
TaskResult(campaign, customer, outcome) ==
  IF PersonalizationThrows(campaign)
    THEN [success |-> FALSE, email |-> customer.email, error |-> "TypeError"]
  ELSE IF outcome = "ok"
    THEN [success |-> TRUE, email |-> customer.email, error |-> "none"]
  ELSE IF outcome = "fail"
    THEN [success |-> FALSE, email |-> customer.email, error |-> "rejected"]
  ELSE [success |-> FALSE, email |-> customer.email, error |-> "thrown"]

\* the pattern /{customername}/gi (emailService.js:21) and the pattern
\* /{customerFirstName}/gi (emailService.js:46), matched without case
Pattern_customername == <<"{", "c", "u", "s", "t", "o", "m", "e", "r", "n", "a", "m", "e", "}">>
Pattern_customerFirstName == <<"{", "c", "u", "s", "t", "o", "m", "e", "r", "F", "i", "r", "s", "t", "N", "a", "m", "e", "}">>
Str_ValuedCustomer == <<"V", "a", "l", "u", "e", "d", " ", "C", "u", "s", "t", "o", "m", "e", "r">>
Str_br == <<"<", "b", "r", ">">>

\* the pattern matches str at position i, whatever the letter case
MatchesAt(str, i, pattern) ==
  /\ i + Len(pattern) - 1 <= Len(str)
  /\ ToLower(SubSeq(str, i, i + Len(pattern) - 1)) = ToLower(pattern)

\* String.prototype.replace with a replacement string: $$ stands for $, $&
\* for the matched text, $` and $' for the text before and after the match
RECURSIVE GetSubstitution(_, _, _, _, _)
GetSubstitution(replacement, k, matched, before, after) ==
  IF k > Len(replacement) THEN <<>>
  ELSE IF replacement[k] = "$" /\ k < Len(replacement)
    THEN CASE replacement[k + 1] = "$" ->
                <<"$">> \o GetSubstitution(replacement, k + 2, matched, before, after)
           [] replacement[k + 1] = "&" ->
                matched \o GetSubstitution(replacement, k + 2, matched, before, after)
           [] replacement[k + 1] = "`" ->
                before \o GetSubstitution(replacement, k + 2, matched, before, after)
           [] replacement[k + 1] = "'" ->
                after \o GetSubstitution(replacement, k + 2, matched, before, after)
           [] OTHER ->
                <<"$">> \o GetSubstitution(replacement, k + 1, matched, before, after)
    ELSE <<replacement[k]>> \o GetSubstitution(replacement, k + 1, matched, before, after)

\* str.replace(/pattern/gi, replacement), scanning from position i
RECURSIVE ReplaceFrom(_, _, _, _)
ReplaceFrom(str, i, pattern, replacement) ==
  IF i > Len(str) THEN <<>>
  ELSE IF MatchesAt(str, i, pattern)
    THEN GetSubstitution(replacement, 1, SubSeq(str, i, i + Len(pattern) - 1),
                         SubSeq(str, 1, i - 1), SubSeq(str, i + Len(pattern), Len(str)))
           \o ReplaceFrom(str, i + Len(pattern), pattern, replacement)
    ELSE <<str[i]>> \o ReplaceFrom(str, i + 1, pattern, replacement)

Replace(str, pattern, replacement) == ReplaceFrom(str, 1, pattern, replacement)

\* name.split(' ')[0]
FirstOfSplit(name) ==
  LET spaces == {k \in 1..Len(name) : name[k] = " "}
  IN  IF spaces = {} THEN name
      ELSE SubSeq(name, 1, (CHOOSE k \in spaces : \A j \in spaces : k <= j) - 1)

\* emailService.js:22, 47: customer.name ? customer.name.split(' ')[0] : 'Valued Customer'
FirstNameOf(customer) ==
  IF Has(customer, "name") /\ customer.name # <<>>
    THEN FirstOfSplit(customer.name)
    ELSE Str_ValuedCustomer

\* personalizedMessage.replace(/<[^>]*>/g, ''), scanning from position i
RECURSIVE StripTagsFrom(_, _)
StripTagsFrom(str, i) ==
  IF i > Len(str) THEN <<>>
  ELSE LET closes == {j \in (i + 1)..Len(str) : str[j] = ">"}
       IN  IF str[i] = "<" /\ closes # {}
             THEN StripTagsFrom(str, (CHOOSE j \in closes : \A c \in closes : j <= c) + 1)
             ELSE <<str[i]>> \o StripTagsFrom(str, i + 1)

\* emailService.js:20-51: the argument of the sendEmail call of one task
EmailFor(campaign, customer) ==
  LET personalizedMessage ==
        Replace(Replace(campaign.message, Pattern_customername, FirstNameOf(customer)),
                <<"\n">>, Str_br)
  IN  [to |-> customer.email,
       subject |-> Replace(campaign.subject, Pattern_customerFirstName, FirstNameOf(customer)),
       text |-> StripTagsFrom(personalizedMessage, 1),
       html |-> [title |-> campaign.subject, body |-> personalizedMessage]]

\* a task without its try/catch: an error thrown in it rejects the task
SettledUncaught(campaign, customer, outcome) ==
  IF PersonalizationThrows(campaign) \/ outcome = "throw"
    THEN [status |-> "rejected", value |-> TaskResult(campaign, customer, outcome)]
    ELSE [status |-> "fulfilled", value |-> TaskResult(campaign, customer, outcome)]

Settled(campaign, customer, outcome) ==
  [status |-> "fulfilled", value |-> TaskResult(campaign, customer, outcome)]

\* emailService.js:12
Batch(customers, i) == SubSeq(customers, i + 1, Min(i + BATCH_SIZE, Len(customers)))

\* emailService.js:6-8: the state of a run before its loop; started, waves and
\* outcomes record the ids the tasks were started for, the size of each wave
\* and the outcome each task was given
DispatchStart(campaign, customers) ==
  [pc |-> "loop", campaign |-> campaign, customers |-> customers, i |-> 0,
   results |-> <<>>, outstanding |-> 0,
   successCount |-> 0, failureCount |-> 0, failedEmails |-> <<>>,
   delays |-> 0, started |-> <<>>, waves |-> <<>>, outcomes |-> <<>>]

NoDispatch == DispatchStart([message |-> <<>>], <<>>)

\* emailService.js:11-65: the loop test and, when it passes, the start of
\* every task of the wave; outs gives the outcome each task will settle with
LoopHead(d, outs) ==
  IF d.i < Len(d.customers)
    THEN LET batch == Batch(d.customers, d.i)
         IN  [d EXCEPT !.pc = "wait",
                       !.results = [k \in 1..Len(batch) |-> Settled(d.campaign, batch[k], outs[k])],
                       !.outstanding = @ + Len(batch),
                       !.started = @ \o [k \in 1..Len(batch) |-> batch[k].id],
                       !.waves = Append(@, Len(batch)),
                       !.outcomes = @ \o outs]
    ELSE [d EXCEPT !.pc = "returned"]

\* emailService.js:82
Str_unknown == <<"u", "n", "k", "n", "o", "w", "n">>

\* emailService.js:68-86
RECURSIVE ProcessResults(_, _)
ProcessResults(d, k) ==
  IF k > Len(d.results) THEN d
  ELSE LET result == d.results[k]
           next == IF result.status = "fulfilled"
                     THEN IF result.value.success
                            THEN [d EXCEPT !.successCount = @ + 1]
                            ELSE [d EXCEPT !.failureCount = @ + 1,
                                           !.failedEmails = Append(@, [email |-> result.value.email,
                                                                       error |-> result.value.error])]
                     ELSE [d EXCEPT !.failureCount = @ + 1,
                                    !.failedEmails = Append(@, [email |-> Str_unknown,
                                                                error |-> "Unknown error"])]
       IN  ProcessResults(next, k + 1)

\* a delay after every wave, the last one included
NeedsDelayAfterLast(d) == d.i + BATCH_SIZE <= Len(d.customers)

\* emailService.js:88-93
NeedsDelay(d) == d.i + BATCH_SIZE < Len(d.customers)

\* the results are counted for the last wave only
AfterWaveLastOnly(d) ==
  IF NeedsDelay(d)
    THEN [d EXCEPT !.pc = "delay", !.results = <<>>]
    ELSE LoopHead([ProcessResults(d, 1) EXCEPT !.results = <<>>, !.i = @ + BATCH_SIZE], <<>>)

\* emailService.js:66-93: what follows the settling of a wave
AfterWave(d) ==
  LET counted == [ProcessResults(d, 1) EXCEPT !.results = <<>>]
  IN  IF NeedsDelay(d)
        THEN [counted EXCEPT !.pc = "delay"]
        ELSE LoopHead([counted EXCEPT !.i = @ + BATCH_SIZE], <<>>)

\* emailService.js:91, 11: the timer fires and the next iteration starts
AfterDelay(d, outs) ==
  LoopHead([d EXCEPT !.delays = @ + 1, !.i = @ + BATCH_SIZE], outs)

\* emailService.js:95-100
DispatchResult(d) ==
  [total |-> Len(d.customers), successCount |-> d.successCount,
   failureCount |-> d.failureCount, failedEmails |-> d.failedEmails]


\* ------------------------------------------------------------------- inputs

Str_al == <<"a", "l">>
Str_NY == <<"N", "Y">>
Str_b == <<"b">>
Str_v == <<"v">>
Str_100 == <<"1", "0", "0">>
Str_x == <<"x">>

InitCustomers ==
  << [id |-> 1, name |-> <<"A", "l", " ", "B">>, email |-> <<"a">>, phone |-> <<"1">>,
      location |-> Str_NY, tags |-> {Str_v}],
     [id |-> 2, name |-> <<"a", "l", "i">>, email |-> <<"b">>, phone |-> <<"2">>,
      location |-> <<"L", "A">>, tags |-> {}],
     [id |-> 3, name |-> <<"B", "o">>, email |-> <<"c">>, phone |-> <<"3">>,
      location |-> Str_NY, tags |-> {}] >>

InitOrders ==
  << [id |-> 1, orderId |-> 1, customerId |-> 1, price |-> 100],
     [id |-> 2, orderId |-> 2, customerId |-> 1, price |-> 50],
     [id |-> 3, orderId |-> 3, customerId |-> 2, price |-> 100] >>

\* the rules previewCampaignAudience is given sequences of
PreviewRules ==
  {Rule("name", "contains", Str_al, l) : l \in {"AND", "OR"}}
    \cup {Rule("location", "equals", Str_NY, l) : l \in {"AND", "OR", "none"}}
    \cup {Rule("name", "startsWith", Str_b, l) : l \in {"AND", "OR"}}
    \cup {Rule("tags", "equals", Str_v, l) : l \in {"AND", "OR"}}
    \cup {Rule("totalSpendings", "greaterThan", Str_100, l) : l \in {"AND", "OR"}}
    \cup {Rule("totalSpendings", "equals", Str_100, "AND"),
          Rule("totalSpendings", "lessThan", Str_100, "OR"),
          Rule("totalSpendings", "lessThan", Str_x, "AND")}

RuleSeqs(n) == UNION {[1..k -> PreviewRules] : k \in 0..n}

Msg_plain == <<"H", "e", "l", "l", "o", " ", "w", "o", "r", "l", "d">>
Msg_subject ==
  <<"S", "u", "b", "j", "e", "c", "t", ":", " ", "H", "i", "\n", "\n", "D", "e", "a", "r">>
Msg_short == <<"H", "i">>

Rules_all == <<Rule("name", "contains", Str_al, "OR"), Rule("location", "equals", Str_NY, "OR")>>
Rules_some == <<Rule("totalSpendings", "greaterThan", Str_100, "none")>>
Rules_none == <<Rule("name", "equals", Str_x, "none")>>

\* the bodies of create and update requests
Body_draft ==
  [name |-> <<"a", "b">>, segmentRules |-> Rules_all, message |-> Msg_plain,
   scheduledFor |-> Undefined]

Body_scheduled ==
  [name |-> <<"a", "b">>, segmentRules |-> Rules_some, message |-> Msg_subject,
   scheduledFor |-> "future"]

Body_past ==
  [name |-> <<"a", "b">>, segmentRules |-> Rules_none, message |-> Msg_plain,
   scheduledFor |-> "past"]

Body_short ==
  [name |-> <<"a", "b">>, segmentRules |-> Rules_all, message |-> Msg_short,
   scheduledFor |-> Undefined]

Body_norules ==
  [name |-> <<"a", "b">>, segmentRules |-> <<>>, message |-> Msg_plain,
   scheduledFor |-> "bad"]

Bodies == {Body_draft, Body_scheduled, Body_past, Body_short, Body_norules}

NoBody == [name |-> <<>>, segmentRules |-> <<>>, message |-> <<>>, scheduledFor |-> Undefined]

\* the outcomes the tasks of one wave settle with: every combination for a
\* short wave, a few patterns for a long one; nothing to choose when the
\* tasks fail before they reach sendEmail
OutcomeChoices(campaign, n) ==
  IF PersonalizationThrows(campaign) THEN {[k \in 1..n |-> "throw"]}
  ELSE IF n <= MaxEnum THEN [1..n -> Outcomes]
  ELSE {[k \in 1..n |-> "ok"], [k \in 1..n |-> "fail"],
        [k \in 1..n |-> IF k = 1 THEN "fail" ELSE IF k = n THEN "throw" ELSE "ok"]}

WaveLen(d, i) == Len(Batch(d.customers, i))

AudienceSizes ==
  {n \in 0..MaxAudience :
     \/ n <= MaxEnum + 1
     \/ \E w \in 1..2 : n \in {w * BATCH_SIZE - 1, w * BATCH_SIZE, w * BATCH_SIZE + 1}
     \/ n = MaxAudience}

SyntheticCustomer(k) ==
  CASE k % 4 = 0 -> [id |-> k, name |-> <<>>, email |-> <<k>>]
    [] k % 4 = 1 -> [id |-> k, name |-> <<"A", "l", " ", "B">>, email |-> <<k>>]
    [] k % 4 = 2 -> [id |-> k, name |-> <<"$", "&", " ", "C", "o">>, email |-> <<k>>]
    [] OTHER     -> [id |-> k, email |-> <<k>>]

Msg_named == <<"H", "i", " ", "{", "C", "u", "s", "t", "o", "m", "e", "r", "N", "a", "m", "e", "}", ",", "\n", "<", "b", ">", "{", "c", "u", "s", "t", "o", "m", "e", "r", "n", "a", "m", "e", "}", "<", "/", "b", ">">>
Subject_named == <<"T", "o", " ", "{", "c", "u", "s", "t", "o", "m", "e", "r", "F", "i", "r", "s", "t", "N", "a", "m", "e", "}">>

\* the campaign objects the dispatcher is called with on its own
DispatchCampaigns ==
  { [message |-> Msg_named, subject |-> Subject_named],
    [message |-> Msg_plain],
    [subject |-> Subject_named] }

\* -------------------------------------------------------------------- state
VARIABLES campaigns, nextId, customers, orders, reqs, outbox

vars == <<campaigns, nextId, customers, orders, reqs, outbox>>

CampaignIds == 1..MaxCampaigns

Slots == 1..MaxReqs

IdleReq ==
  [pc |-> "idle", kind |-> "none", id |-> 0, body |-> NoBody, campaign |-> NoDoc,
   audience |-> <<>>, d |-> NoDispatch, status |-> 0, reason |-> "none",
   seen |-> "none", before |-> NoSnapshot]

Init ==
  /\ campaigns = [c \in CampaignIds |-> NoDoc]
  /\ nextId = 1
  /\ customers = InitCustomers
  /\ orders = InitOrders
  /\ reqs = [r \in Slots |-> IdleReq]
  /\ outbox = EmptyBag

Respond(req, status, reason) ==
  [req EXCEPT !.pc = "done", !.status = status, !.reason = reason]

Exists(id) == id \in CampaignIds /\ campaigns[id] # NoDoc

\* Campaign.findById
FindById(id) == IF Exists(id) THEN campaigns[id] ELSE NoDoc


\* ------------------------------------------------------------------ actions
Others(r) == Slots \ {r}

InFlightCreates == Cardinality({r \in Slots : reqs[r].kind = "create" /\ reqs[r].pc = "insert"})

\* the synchronous start of a handler, up to its first database call
Started(kind, id, body, snap) ==
  LET req == [IdleReq EXCEPT !.kind = kind, !.id = id, !.body = body, !.before = snap]
  IN  CASE kind = "create" ->
             IF campaignSchema(body) THEN [req EXCEPT !.pc = "insert"]
                                     ELSE Respond(req, 400, "validation")
        [] kind = "update" ->
             IF campaignSchema(body) THEN [req EXCEPT !.pc = "find"]
                                     ELSE Respond(req, 400, "validation")
        [] kind = "preview" ->
             IF Len(body.segmentRules) = 0 THEN Respond(req, 400, "norules")
                                           ELSE [req EXCEPT !.pc = "resolve"]
        [] OTHER -> [req EXCEPT !.pc = "find"]

Requests ==
  {<<"create", 0, b>> : b \in Bodies}
    \cup {<<"update", id, b>> : id \in CampaignIds, b \in Bodies}
    \cup {<<k, id, NoBody>> : k \in {"send", "delete"}, id \in CampaignIds}
    \cup {<<"preview", 0, [NoBody EXCEPT !.segmentRules = rs]>> :
            rs \in {<<>>, Rules_all, Rules_some}}

\* a request takes the first free slot
Begin(r, snap, requests) ==
  /\ reqs[r].pc = "idle"
  /\ \A o \in Slots : o < r => reqs[o].pc # "idle"
  /\ \E q \in requests :
       /\ q[1] = "create" => nextId + InFlightCreates <= MaxCampaigns
       /\ reqs' = [reqs EXCEPT ![r] = Started(q[1], q[2], q[3], snap)]
  /\ UNCHANGED <<campaigns, nextId, customers, orders, outbox>>

RaceRequests == {<<"update", 1, Body_scheduled>>, <<"send", 1, NoBody>>, <<"delete", 1, NoBody>>}

\* a request for the first campaign arrives while others may be in flight
Receive(r) == Begin(r, NoSnapshot, RaceRequests)

\* a request arrives when no other is in flight
ReceiveAlone(r) ==
  /\ \A o \in Others(r) : reqs[o].pc = "idle"
  /\ Begin(r, [taken |-> TRUE, campaigns |-> campaigns, outbox |-> outbox], Requests)

\* campaigns.js:106-131: createCampaign up to the stored document
Insert(r) ==
  LET req == reqs[r]
      ex == ExtractSubject(req.body.message)
      doc == CampaignSchema([name |-> req.body.name, subject |-> ex.subject,
                             segmentRules |-> req.body.segmentRules,
                             message |-> ex.body,
                             status |-> StatusFor(req.body.scheduledFor),
                             scheduledFor |-> req.body.scheduledFor])
  IN  /\ req.pc = "insert"
      /\ IF ex.body = <<>>
           THEN /\ reqs' = [reqs EXCEPT ![r] = Respond(req, 500, "server")]
                /\ UNCHANGED <<campaigns, nextId>>
           ELSE /\ campaigns' = [campaigns EXCEPT ![nextId] = doc]
                /\ nextId' = nextId + 1
                /\ reqs' = [reqs EXCEPT ![r] = [req EXCEPT !.pc = "resolve", !.id = nextId,
                                                           !.campaign = doc]]
      /\ UNCHANGED <<customers, orders, outbox>>

AfterFind(kind) ==
  CASE kind = "update" -> "write"
    [] kind = "send" -> "resolve"
    [] kind = "delete" -> "remove"

\* FindStep without the check of the stored status
FindStepUnchecked(req, doc) ==
  IF doc = NoDoc THEN Respond([req EXCEPT !.seen = "absent"], 404, "notfound")
  ELSE [req EXCEPT !.pc = AfterFind(req.kind), !.campaign = doc, !.seen = doc.status]

\* campaigns.js:284-298, 341-355, 406-420: findById and the two checks
FindStep(req, doc) ==
  IF doc = NoDoc THEN Respond([req EXCEPT !.seen = "absent"], 404, "notfound")
  ELSE IF doc.status = "sent" THEN Respond([req EXCEPT !.seen = "sent"], 400, "sent")
  ELSE [req EXCEPT !.pc = AfterFind(req.kind), !.campaign = doc, !.seen = doc.status]

Find(r) ==
  /\ reqs[r].pc = "find"
  /\ reqs' = [reqs EXCEPT ![r] = FindStep(reqs[r], FindById(reqs[r].id))]
  /\ UNCHANGED <<campaigns, nextId, customers, orders, outbox>>

\* campaigns.js:301-311: findByIdAndUpdate; null when the document is gone,
\* and campaign.segmentRules then raises
UpdateWrite(r) ==
  LET req == reqs[r]
  IN  /\ req.pc = "write"
      /\ IF Exists(req.id)
           THEN LET doc == UpdatedDoc(campaigns[req.id], req.body)
                IN  /\ campaigns' = [campaigns EXCEPT ![req.id] = doc]
                    /\ reqs' = [reqs EXCEPT ![r] = [req EXCEPT !.pc = "resolve", !.campaign = doc]]
           ELSE /\ reqs' = [reqs EXCEPT ![r] = Respond(req, 500, "server")]
                /\ UNCHANGED campaigns
      /\ UNCHANGED <<nextId, customers, orders, outbox>>

\* emailService.js:3-65: the call, up to the first await
sendCampaignEmails(campaign, audience, outs) == LoopHead(DispatchStart(campaign, audience), outs)

\* the sendEmail calls the tasks of the wave starting at i make
WaveCalls(id, campaign, audience, i) ==
  IF PersonalizationThrows(campaign) \/ i >= Len(audience) THEN EmptyBag
  ELSE LET batch == Batch(audience, i)
       IN  SetToBag({[campaign |-> id, email |-> EmailFor(campaign, batch[k])] :
                       k \in 1..Len(batch)})

\* a send that stores failed when no delivery succeeded
SentCampaignOrFailed(campaign, targetAudience, emailResults) ==
  [campaign EXCEPT
     !.status = IF emailResults.successCount = 0 THEN "failed" ELSE "sent",
     !.sentAt = "now",
     !.targetAudience = Len(targetAudience),
     !.delivered = emailResults.successCount,
     !.failed = emailResults.failureCount,
     !.communicationLog =
        [k \in 1..Len(targetAudience) |->
           [customerId |-> targetAudience[k].id, status |-> "failed",
            deliveredAt |-> "null"]]]

\* campaigns.js:371-380
SentCampaign(campaign, targetAudience, emailResults) ==
  LET Failed(customer) ==
        \E f \in 1..Len(emailResults.failedEmails) :
          emailResults.failedEmails[f].email = customer.email
  IN  [campaign EXCEPT
         !.status = "sent",
         !.sentAt = "now",
         !.targetAudience = Len(targetAudience),
         !.delivered = emailResults.successCount,
         !.failed = emailResults.failureCount,
         !.communicationLog =
            [k \in 1..Len(targetAudience) |->
               [customerId |-> targetAudience[k].id,
                status |-> IF Failed(targetAudience[k]) THEN "failed" ELSE "delivered",
                deliveredAt |-> IF Failed(targetAudience[k]) THEN "null" ELSE "now"]]]

\* Resolved without the rejection of an empty audience
ResolvedAnyAudience(req, audience, outs) ==
  CASE req.kind = "preview" -> Respond([req EXCEPT !.audience = audience], 200, "ok")
    [] req.kind = "send" ->
         [req EXCEPT !.pc = "dispatch", !.audience = audience,
                     !.d = [sendCampaignEmails(req.campaign, audience, outs)
                              EXCEPT !.pc = "wait"]]
    [] OTHER -> [req EXCEPT !.pc = "save", !.audience = audience,
                            !.campaign = [@ EXCEPT !.targetAudience = Len(audience)]]

\* what a handler does with the resolved audience (campaigns.js:134-137,
\* 311-314, 358-368, 450-462)
Resolved(req, audience, outs) ==
  CASE req.kind = "preview" -> Respond([req EXCEPT !.audience = audience], 200, "ok")
    [] req.kind = "send" ->
         IF Len(audience) = 0
           THEN Respond(req, 400, "noaudience")
           ELSE [req EXCEPT !.pc = "dispatch", !.audience = audience,
                            !.d = sendCampaignEmails(req.campaign, audience, outs)]
    [] OTHER -> [req EXCEPT !.pc = "save", !.audience = audience,
                            !.campaign = [@ EXCEPT !.targetAudience = Len(audience)]]

RulesOf(req) == IF req.kind = "preview" THEN req.body.segmentRules ELSE req.campaign.segmentRules

\* a resolver that records the size of the audience in the first stored campaign
ResolveRecording(r) ==
  LET req == reqs[r]
      audience == calculateTargetAudience(RulesOf(req), customers, orders)
      choices == IF req.kind = "send"
                   THEN OutcomeChoices(req.campaign, Len(Batch(audience, 0)))
                   ELSE {<<>>}
  IN  /\ req.pc = "resolve"
      /\ \E outs \in choices :
           reqs' = [reqs EXCEPT ![r] = Resolved(req, audience, outs)]
      /\ outbox' = IF req.kind = "send"
                     THEN outbox (+) WaveCalls(req.id, req.campaign, audience, 0)
                     ELSE outbox
      /\ campaigns' = IF Exists(1)
                        THEN [campaigns EXCEPT ![1].targetAudience = Len(audience) + 1]
                        ELSE campaigns
      /\ UNCHANGED <<nextId, customers, orders>>

\* calculateTargetAudience returns to its caller
Resolve(r) ==
  LET req == reqs[r]
      audience == calculateTargetAudience(RulesOf(req), customers, orders)
      choices == IF req.kind = "send"
                   THEN OutcomeChoices(req.campaign, Len(Batch(audience, 0)))
                   ELSE {<<>>}
  IN  /\ req.pc = "resolve"
      /\ \E outs \in choices :
           reqs' = [reqs EXCEPT ![r] = Resolved(req, audience, outs)]
      /\ outbox' = IF req.kind = "send"
                     THEN outbox (+) WaveCalls(req.id, req.campaign, audience, 0)
                     ELSE outbox
      /\ UNCHANGED <<campaigns, nextId, customers, orders>>

\* a resolver that takes the spend of every customer to be zero when the
\* aggregation fails, and goes on
ResolveFailAsZero(r) ==
  LET req == reqs[r]
      audience == calculateTargetAudience(RulesOf(req), customers, <<>>)
      choices == IF req.kind = "send"
                   THEN OutcomeChoices(req.campaign, Len(Batch(audience, 0)))
                   ELSE {<<>>}
  IN  /\ req.pc = "resolve"
      /\ \E outs \in choices :
           reqs' = [reqs EXCEPT ![r] = Resolved(req, audience, outs)]
      /\ outbox' = IF req.kind = "send"
                     THEN outbox (+) WaveCalls(req.id, req.campaign, audience, 0)
                     ELSE outbox
      /\ UNCHANGED <<campaigns, nextId, customers, orders>>

\* calculateTargetAudience raises: a query or an aggregation fails
ResolveFail(r) ==
  /\ reqs[r].pc = "resolve"
  /\ reqs' = [reqs EXCEPT ![r] = Respond(reqs[r], 500, "server")]
  /\ UNCHANGED <<campaigns, nextId, customers, orders, outbox>>

\* one delivery of the wave settles
Settle(r) ==
  /\ reqs[r].pc = "dispatch"
  /\ reqs[r].d.pc = "wait"
  /\ reqs[r].d.outstanding > 0
  /\ reqs' = [reqs EXCEPT ![r].d.outstanding = @ - 1]
  /\ UNCHANGED <<campaigns, nextId, customers, orders, outbox>>

\* a join that resolves with the first task that settles (Promise.race)
AnySettled(d) == d.outstanding < Len(d.results)

\* Promise.allSettled resolves only when no task of the wave is outstanding
AllSettled(d) == d.outstanding = 0

\* a caller that gives up when no delivery succeeded
ReturnedNeedsSuccess(req, d) ==
  IF req.kind = "send"
    THEN IF d.successCount = 0
           THEN Respond([req EXCEPT !.d = d], 500, "server")
           ELSE [req EXCEPT !.pc = "save", !.d = d,
                            !.campaign = SentCampaign(req.campaign, req.audience, DispatchResult(d))]
    ELSE Respond([req EXCEPT !.d = d], 200, "returned")

\* the dispatcher returned to its caller
Returned(req, d) ==
  IF req.kind = "send"
    THEN [req EXCEPT !.pc = "save", !.d = d,
                     !.campaign = SentCampaign(req.campaign, req.audience, DispatchResult(d))]
    ELSE Respond([req EXCEPT !.d = d], 200, "returned")

Continue(req, d) == IF d.pc = "returned" THEN Returned(req, d) ELSE [req EXCEPT !.d = d]

\* a join that records the failures counted so far in the stored campaign
JoinRecording(r) ==
  /\ reqs[r].pc = "dispatch"
  /\ reqs[r].d.pc = "wait"
  /\ AllSettled(reqs[r].d)
  /\ reqs' = [reqs EXCEPT ![r] = Continue(reqs[r], AfterWave(reqs[r].d))]
  /\ campaigns' = IF Exists(reqs[r].id)
                    THEN [campaigns EXCEPT ![reqs[r].id].failed = AfterWave(reqs[r].d).failureCount]
                    ELSE campaigns
  /\ UNCHANGED <<nextId, customers, orders, outbox>>

\* emailService.js:16, 66-93: the wave is joined and its results counted
Join(r) ==
  /\ reqs[r].pc = "dispatch"
  /\ reqs[r].d.pc = "wait"
  /\ AllSettled(reqs[r].d)
  /\ reqs' = [reqs EXCEPT ![r] = Continue(reqs[r], AfterWave(reqs[r].d))]
  /\ UNCHANGED <<campaigns, nextId, customers, orders, outbox>>

\* emailService.js:91: the inter-wave delay ends and the next wave starts
Delay(r) ==
  LET req == reqs[r]
      i == req.d.i + BATCH_SIZE
  IN  /\ req.pc = "dispatch"
      /\ req.d.pc = "delay"
      /\ \E outs \in OutcomeChoices(req.d.campaign, WaveLen(req.d, i)) :
           reqs' = [reqs EXCEPT ![r] = Continue(req, AfterDelay(req.d, outs))]
      /\ outbox' = outbox (+) WaveCalls(req.id, req.d.campaign, req.d.customers, i)
      /\ UNCHANGED <<campaigns, nextId, customers, orders>>

\* a save that pushes the new entries onto the stored log
SavedAppending(stored, req) ==
  IF req.kind = "send"
    THEN [stored EXCEPT !.status = req.campaign.status,
                        !.sentAt = req.campaign.sentAt,
                        !.targetAudience = req.campaign.targetAudience,
                        !.delivered = req.campaign.delivered,
                        !.failed = req.campaign.failed,
                        !.communicationLog = @ \o req.campaign.communicationLog]
    ELSE [stored EXCEPT !.targetAudience = req.campaign.targetAudience]

\* the paths campaign.save() writes (campaigns.js:137-138, 314-315, 371-382)
Saved(stored, req) ==
  IF req.kind = "send"
    THEN [stored EXCEPT !.status = req.campaign.status,
                        !.sentAt = req.campaign.sentAt,
                        !.targetAudience = req.campaign.targetAudience,
                        !.delivered = req.campaign.delivered,
                        !.failed = req.campaign.failed,
                        !.communicationLog = req.campaign.communicationLog]
    ELSE [stored EXCEPT !.targetAudience = req.campaign.targetAudience]

\* campaign.save(): raises when the document is gone
Save(r) ==
  LET req == reqs[r]
  IN  /\ req.pc = "save"
      /\ IF Exists(req.id)
           THEN /\ campaigns' = [campaigns EXCEPT ![req.id] = Saved(@, req)]
                /\ reqs' = [reqs EXCEPT ![r] =
                              Respond(req, IF req.kind = "create" THEN 201 ELSE 200, "ok")]
           ELSE /\ reqs' = [reqs EXCEPT ![r] = Respond(req, 500, "server")]
                /\ UNCHANGED campaigns
      /\ UNCHANGED <<nextId, customers, orders, outbox>>

\* campaigns.js:422-427: findByIdAndDelete
Remove(r) ==
  /\ reqs[r].pc = "remove"
  /\ campaigns' = [campaigns EXCEPT ![reqs[r].id] = NoDoc]
  /\ reqs' = [reqs EXCEPT ![r] = Respond(reqs[r], 200, "ok")]
  /\ UNCHANGED <<nextId, customers, orders, outbox>>

\* the response is out and the slot is free again
Finish(r) ==
  /\ reqs[r].pc = "done"
  /\ reqs' = [reqs EXCEPT ![r] = IdleReq]
  /\ UNCHANGED <<campaigns, nextId, customers, orders, outbox>>

\* sendCampaignEmails called on its own
Call(r) ==
  LET req == reqs[r]
  IN  /\ req.pc = "call"
      /\ \E outs \in OutcomeChoices(req.campaign, Len(Batch(req.audience, 0))) :
           reqs' = [reqs EXCEPT ![r] =
                      Continue([req EXCEPT !.pc = "dispatch"],
                               sendCampaignEmails(req.campaign, req.audience, outs))]
      /\ outbox' = outbox (+) WaveCalls(req.id, req.campaign, req.audience, 0)
      /\ UNCHANGED <<campaigns, nextId, customers, orders>>

\* handlers run one at a time
Next ==
  \E r \in Slots :
    \/ ReceiveAlone(r) \/ Insert(r) \/ Find(r) \/ UpdateWrite(r) \/ Resolve(r)
    \/ ResolveFail(r) \/ Settle(r) \/ Join(r) \/ Save(r) \/ Remove(r) \/ Finish(r)

Spec == Init /\ [][Next]_vars

\* requests for one stored campaign interleave at their awaits
InitRace ==
  /\ campaigns = [c \in CampaignIds |->
                    IF c = 1 THEN [CampaignSchema([name |-> Body_draft.name,
                                                   segmentRules |-> Body_draft.segmentRules,
                                                   message |-> Body_draft.message,
                                                   status |-> "draft",
                                                   scheduledFor |-> Undefined])
                                     EXCEPT !.targetAudience = Len(InitCustomers)]
                             ELSE NoDoc]
  /\ nextId = 2
  /\ customers = InitCustomers
  /\ orders = InitOrders
  /\ reqs = [r \in Slots |-> IdleReq]
  /\ outbox = EmptyBag

NextRace ==
  \E r \in Slots :
    \/ Receive(r) \/ Find(r) \/ UpdateWrite(r) \/ Resolve(r) \/ ResolveFail(r)
    \/ Settle(r) \/ Join(r) \/ Save(r) \/ Remove(r) \/ Finish(r)

SpecRace == InitRace /\ [][NextRace]_vars

\* every delivery settles in the end and a handler that can continue does
Fairness == \A r \in Slots : WF_vars(Settle(r)) /\ WF_vars(Join(r)) /\ WF_vars(Save(r))

\* update and send requests for a stored campaign, one handler at a time
StoredRequests == {q \in Requests : q[1] \in {"update", "send"}}

ReceiveStored(r) ==
  /\ \A o \in Others(r) : reqs[o].pc = "idle"
  /\ Begin(r, [taken |-> TRUE, campaigns |-> campaigns, outbox |-> outbox], StoredRequests)

NextStored ==
  \E r \in Slots :
    \/ ReceiveStored(r) \/ Find(r) \/ UpdateWrite(r) \/ Resolve(r) \/ ResolveFail(r)
    \/ Settle(r) \/ Join(r) \/ Save(r) \/ Finish(r)

SpecStored == InitRace /\ [][NextStored]_vars /\ Fairness

\* ---- customer and order handlers, each run from request to response
\* orderSchema (unnamed/part_003:135-151): the fields of a body the handlers read
orderSchema(body) == body.price >= 0

\* the customer ids a request can name: the stored ones and one never stored
CustomerRefs == 1..(Len(InitCustomers) + 1)

\* the orderId values a body can carry: two that stored orders start with
OrderKeys == {InitOrders[1].orderId, InitOrders[2].orderId}

OrderBodies == [orderId : OrderKeys, customerId : CustomerRefs, price : {-1, 100}]

CustomerExists(id) == \E c \in 1..Len(customers) : customers[c].id = id

\* the _id a new order gets: one that no stored order has
NewOrderId == IF orders = <<>> THEN 1 ELSE orders[Len(orders)].id + 1

\* the slot holds the answer of the last handler, with the customer the
\* request named and the price it gave
Answered(kind, id, body, status, reason) ==
  [reqs EXCEPT ![1] =
     Respond([IdleReq EXCEPT !.kind = kind,
                             !.id = IF kind = "deleteCustomer" THEN id ELSE 0,
                             !.body = [customerId |-> body.customerId, price |-> body.price]],
             status, reason)]

NoOrderBody == [customerId |-> 0, price |-> 0]

\* a count of related orders that finds none
relatedOrdersNone(ords, customerId) == 0

\* customers.js:219: Order.countDocuments({ customerId })
relatedOrders(ords, customerId) ==
  Len(SelectSeq(ords, LAMBDA o : o.customerId = customerId))

\* customers.js:216-248
deleteCustomer(id) ==
  /\ IF relatedOrders(orders, id) > 0
       THEN /\ reqs' = Answered("deleteCustomer", id, NoOrderBody, 400, "hasorders")
            /\ UNCHANGED customers
       ELSE IF ~CustomerExists(id)
         THEN /\ reqs' = Answered("deleteCustomer", id, NoOrderBody, 404, "notfound")
              /\ UNCHANGED customers
         ELSE /\ customers' = SelectSeq(customers, LAMBDA c : c.id # id)
              /\ reqs' = Answered("deleteCustomer", id, NoOrderBody, 200, "ok")
  /\ UNCHANGED <<campaigns, nextId, orders, outbox>>

\* createOrder (unnamed/part_003:237-288)
createOrder(body) ==
  /\ NewOrderId <= MaxOrders
  /\ IF ~orderSchema(body)
       THEN /\ reqs' = Answered("createOrder", 0, body, 400, "validation")
            /\ UNCHANGED orders
       ELSE IF ~CustomerExists(body.customerId)
         THEN /\ reqs' = Answered("createOrder", 0, body, 404, "nocustomer")
              /\ UNCHANGED orders
       ELSE IF \E o \in 1..Len(orders) : orders[o].orderId = body.orderId
         THEN /\ reqs' = Answered("createOrder", 0, body, 400, "duplicate")
              /\ UNCHANGED orders
         ELSE /\ orders' = Append(orders, [id |-> NewOrderId, orderId |-> body.orderId,
                                            customerId |-> body.customerId,
                                            price |-> body.price])
              /\ reqs' = Answered("createOrder", NewOrderId, body, 201, "ok")
  /\ UNCHANGED <<campaigns, nextId, customers, outbox>>

\* updateOrder (unnamed/part_003:291-351)
updateOrder(id, body) ==
  /\ IF ~orderSchema(body)
       THEN /\ reqs' = Answered("updateOrder", id, body, 400, "validation")
            /\ UNCHANGED orders
       ELSE IF ~CustomerExists(body.customerId)
         THEN /\ reqs' = Answered("updateOrder", id, body, 404, "nocustomer")
              /\ UNCHANGED orders
       ELSE IF \E o \in 1..Len(orders) : orders[o].orderId = body.orderId /\ orders[o].id # id
         THEN /\ reqs' = Answered("updateOrder", id, body, 400, "duplicate")
              /\ UNCHANGED orders
       ELSE IF ~\E o \in 1..Len(orders) : orders[o].id = id
         THEN /\ reqs' = Answered("updateOrder", id, body, 404, "notfound")
              /\ UNCHANGED orders
         ELSE /\ orders' = [o \in 1..Len(orders) |->
                              IF orders[o].id = id
                                THEN [orders[o] EXCEPT !.orderId = body.orderId,
                                                       !.customerId = body.customerId,
                                                       !.price = body.price]
                                ELSE orders[o]]
              /\ reqs' = Answered("updateOrder", id, body, 200, "ok")
  /\ UNCHANGED <<campaigns, nextId, customers, outbox>>

\* deleteOrder (unnamed/part_003:354-376)
deleteOrder(id) ==
  /\ IF \E o \in 1..Len(orders) : orders[o].id = id
       THEN /\ orders' = SelectSeq(orders, LAMBDA o : o.id # id)
            /\ reqs' = Answered("deleteOrder", id, NoOrderBody, 200, "ok")
       ELSE /\ reqs' = Answered("deleteOrder", id, NoOrderBody, 404, "notfound")
            /\ UNCHANGED orders
  /\ UNCHANGED <<campaigns, nextId, customers, outbox>>

NextOrders ==
  \/ \E id \in CustomerRefs : deleteCustomer(id)
  \/ \E body \in OrderBodies : createOrder(body)
  \/ \E id \in 1..MaxOrders, body \in OrderBodies : updateOrder(id, body)
  \/ \E id \in 1..MaxOrders : deleteOrder(id)

SpecOrders == Init /\ [][NextOrders]_vars

\* deleteCustomer, createOrder and updateOrder interleaved at their awaits.
\* The requests name the last stored customer, who has no order, or a
\* customer never stored; an order body carries the orderId of a stored
\* order or a new one
RaceCustomer == InitCustomers[Len(InitCustomers)].id

RaceOrderBodies ==
  [orderId : {InitOrders[1].orderId, Len(InitOrders) + 1},
   customerId : {RaceCustomer, Len(InitCustomers) + 1},
   price : {100}]

OrderRaceRequests ==
  {<<"deleteCustomer", RaceCustomer, NoOrderBody>>}
    \cup {<<"createOrder", 0, b>> : b \in RaceOrderBodies}
    \cup {<<"updateOrder", InitOrders[1].id, b>> : b \in RaceOrderBodies}

InFlightOrders ==
  Cardinality({r \in Slots : reqs[r].kind = "createOrder" /\ reqs[r].pc # "done"})

\* the synchronous start of a handler, up to its first database call
\* (customers.js:216-219, unnamed/part_003:237-243, 291-297)
OrderStarted(kind, id, body) ==
  LET req == [IdleReq EXCEPT !.kind = kind, !.id = id, !.body = body]
  IN  IF kind = "deleteCustomer" THEN [req EXCEPT !.pc = "countOrders"]
      ELSE IF orderSchema(body) THEN [req EXCEPT !.pc = "findCustomer"]
      ELSE Respond(req, 400, "validation")

ReceiveOrders(r) ==
  /\ reqs[r].pc = "idle"
  /\ \A o \in Slots : o < r => reqs[o].pc # "idle"
  /\ \E q \in OrderRaceRequests :
       /\ q[1] = "createOrder" => Len(orders) + InFlightOrders < MaxOrders
       /\ reqs' = [reqs EXCEPT ![r] = OrderStarted(q[1], q[2], q[3])]
  /\ UNCHANGED <<campaigns, nextId, customers, orders, outbox>>

\* customers.js:219-226: Order.countDocuments and the check of the count
CountOrders(r) ==
  /\ reqs[r].pc = "countOrders"
  /\ reqs' = [reqs EXCEPT ![r] =
                IF relatedOrders(orders, reqs[r].id) > 0
                  THEN Respond(reqs[r], 400, "hasorders")
                  ELSE [reqs[r] EXCEPT !.pc = "deleteCustomer"]]
  /\ UNCHANGED <<campaigns, nextId, customers, orders, outbox>>

\* customers.js:228-240: Customer.findByIdAndDelete
CustomerFindByIdAndDelete(r) ==
  /\ reqs[r].pc = "deleteCustomer"
  /\ IF CustomerExists(reqs[r].id)
       THEN /\ customers' = SelectSeq(customers, LAMBDA c : c.id # reqs[r].id)
            /\ reqs' = [reqs EXCEPT ![r] = Respond(reqs[r], 200, "ok")]
       ELSE /\ reqs' = [reqs EXCEPT ![r] = Respond(reqs[r], 404, "notfound")]
            /\ UNCHANGED customers
  /\ UNCHANGED <<campaigns, nextId, orders, outbox>>

\* unnamed/part_003:243-249, 297-303: Customer.findById and its check
CustomerFindById(r) ==
  /\ reqs[r].pc = "findCustomer"
  /\ reqs' = [reqs EXCEPT ![r] =
                IF CustomerExists(reqs[r].body.customerId)
                  THEN [reqs[r] EXCEPT !.pc = "findOrder"]
                  ELSE Respond(reqs[r], 404, "nocustomer")]
  /\ UNCHANGED <<campaigns, nextId, customers, orders, outbox>>

\* unnamed/part_003:252-258, 306-316: Order.findOne by orderId and its check
OrderFindOne(r) ==
  LET req == reqs[r]
      existingOrder ==
        \E o \in 1..Len(orders) :
          /\ orders[o].orderId = req.body.orderId
          /\ req.kind = "updateOrder" => orders[o].id # req.id
  IN  /\ req.pc = "findOrder"
      /\ reqs' = [reqs EXCEPT ![r] =
                    IF existingOrder THEN Respond(req, 400, "duplicate")
                                     ELSE [req EXCEPT !.pc = "writeOrder"]]
      /\ UNCHANGED <<campaigns, nextId, customers, orders, outbox>>

\* unnamed/part_003:261, 319-330: Order.create, Order.findByIdAndUpdate
OrderWrite(r) ==
  LET req == reqs[r]
  IN  /\ req.pc = "writeOrder"
      /\ IF req.kind = "createOrder"
           THEN /\ orders' = Append(orders, [id |-> NewOrderId, orderId |-> req.body.orderId,
                                              customerId |-> req.body.customerId,
                                              price |-> req.body.price])
                /\ reqs' = [reqs EXCEPT ![r] = Respond(req, 201, "ok")]
           ELSE IF \E o \in 1..Len(orders) : orders[o].id = req.id
             THEN /\ orders' = [o \in 1..Len(orders) |->
                                  IF orders[o].id = req.id
                                    THEN [orders[o] EXCEPT !.orderId = req.body.orderId,
                                                           !.customerId = req.body.customerId,
                                                           !.price = req.body.price]
                                    ELSE orders[o]]
                  /\ reqs' = [reqs EXCEPT ![r] = Respond(req, 200, "ok")]
             ELSE /\ reqs' = [reqs EXCEPT ![r] = Respond(req, 404, "notfound")]
                  /\ UNCHANGED orders
      /\ UNCHANGED <<campaigns, nextId, customers, outbox>>

InitOrdersRace ==
  /\ campaigns = [c \in CampaignIds |-> NoDoc]
  /\ nextId = 1
  /\ customers = InitCustomers
  /\ orders = SubSeq(InitOrders, 1, Len(InitOrders) - 1)
  /\ reqs = [r \in Slots |-> IdleReq]
  /\ outbox = EmptyBag

NextOrdersRace ==
  \E r \in Slots :
    \/ ReceiveOrders(r) \/ CountOrders(r) \/ CustomerFindByIdAndDelete(r)
    \/ CustomerFindById(r) \/ OrderFindOne(r) \/ OrderWrite(r) \/ Finish(r)

SpecOrdersRace == InitOrdersRace /\ [][NextOrdersRace]_vars

\* sendCampaign requests for one stored draft campaign whose rules match every
\* stored customer, with audiences of one wave and of several waves
SendAudiences == {Len(InitCustomers), BATCH_SIZE, BATCH_SIZE + 1, 2 * BATCH_SIZE + 1}

StoredCustomer(k) ==
  [InitCustomers[((k - 1) % Len(InitCustomers)) + 1] EXCEPT !.id = k, !.email = <<k>>]

InitSend ==
  /\ campaigns = [c \in CampaignIds |->
                    IF c = 1 THEN CampaignSchema([name |-> Body_draft.name,
                                                  segmentRules |-> Body_draft.segmentRules,
                                                  message |-> Body_draft.message,
                                                  status |-> "draft",
                                                  scheduledFor |-> Undefined])
                             ELSE NoDoc]
  /\ nextId = 2
  /\ \E n \in SendAudiences : customers = [k \in 1..n |-> StoredCustomer(k)]
  /\ orders = InitOrders
  /\ reqs = [r \in Slots |-> IdleReq]
  /\ outbox = EmptyBag

SendRequests == {q \in Requests : q[1] = "send"}

ReceiveSend(r) ==
  /\ \A o \in Others(r) : reqs[o].pc = "idle"
  /\ Begin(r, [taken |-> TRUE, campaigns |-> campaigns, outbox |-> outbox], SendRequests)

NextSend ==
  \E r \in Slots :
    \/ ReceiveSend(r) \/ Find(r) \/ Resolve(r) \/ ResolveFail(r)
    \/ Settle(r) \/ Join(r) \/ Delay(r) \/ Save(r) \/ Finish(r)

SpecSend == InitSend /\ [][NextSend]_vars

\* the dispatcher on its own, for audiences of several waves
InitDispatch ==
  /\ campaigns = [c \in CampaignIds |-> NoDoc]
  /\ nextId = 1
  /\ customers = InitCustomers
  /\ orders = InitOrders
  /\ outbox = EmptyBag
  /\ \E n \in AudienceSizes, c \in DispatchCampaigns :
       reqs = [r \in Slots |->
                 IF r = 1 THEN [IdleReq EXCEPT !.pc = "call", !.kind = "dispatch", !.id = 1,
                                               !.campaign = c,
                                               !.audience = [k \in 1..n |-> SyntheticCustomer(k)]]
                          ELSE IdleReq]

NextDispatch == \E r \in Slots : Call(r) \/ Settle(r) \/ Join(r) \/ Delay(r)

SpecDispatch == InitDispatch /\ [][NextDispatch]_vars

\* previewCampaignAudience on every short rule sequence
InitPreview ==
  /\ campaigns = [c \in CampaignIds |-> NoDoc]
  /\ nextId = 1
  /\ customers = InitCustomers
  /\ orders = InitOrders
  /\ outbox = EmptyBag
  /\ \E rs \in RuleSeqs(MaxRules) :
       reqs = [r \in Slots |->
                 IF r = 1 THEN Started("preview", 0, [NoBody EXCEPT !.segmentRules = rs], NoSnapshot)
                          ELSE IdleReq]

NextPreview == \E r \in Slots : Resolve(r) \/ ResolveFail(r)

SpecPreview == InitPreview /\ [][NextPreview]_vars

\* ------------------------------------------------------------------- claims
Active == {r \in Slots : reqs[r].pc # "idle"}

\* the stored campaign a request is aimed at, as it was when the request arrived
Target(req) == req.before.campaigns[req.id]

OnStored(req) == req.kind \in {"update", "send", "delete"} /\ req.before.taken

\* C1: with handlers run one at a time, an updateCampaign, sendCampaign or
\* deleteCampaign request that arrives when the stored status is sent leaves
\* the stored campaign as it was, starts no delivery task, and is answered
\* with status 400
C1_SentIsTerminal ==
  \A r \in Active :
    (OnStored(reqs[r]) /\ Target(reqs[r]).status = "sent") =>
      /\ campaigns[reqs[r].id] = Target(reqs[r])
      /\ reqs[r].d.started = <<>>
      /\ reqs[r].pc = "done" => reqs[r].status = 400

C1_Witness ==
  \E r \in Active :
    /\ reqs[r].kind = "delete"
    /\ reqs[r].pc = "done"
    /\ reqs[r].reason = "sent"
    /\ campaigns[reqs[r].id].status = "sent"
    /\ Len(campaigns[reqs[r].id].communicationLog) = Len(InitCustomers)

Rejections == {"validation", "notfound", "sent", "noaudience"}

\* the rejection the request must end with, "none" when it must not be rejected
Expected(req) ==
  IF req.kind \in {"create", "update"} /\ ~campaignSchema(req.body) THEN "validation"
  ELSE IF req.kind = "create" THEN "none"
  ELSE IF Target(req) = NoDoc THEN "notfound"
  ELSE IF Target(req).status = "sent" THEN "sent"
  ELSE IF req.kind = "send"
          /\ calculateTargetAudience(Target(req).segmentRules, customers, orders) = <<>>
    THEN "noaudience"
  ELSE "none"

\* C7: with handlers run one at a time, a create or update request with an
\* invalid body, an update, send or delete request for a missing or a sent
\* campaign, and a send request whose audience is empty are answered with
\* that rejection (unless the audience query itself fails), and a rejected
\* request leaves every stored campaign as it was when the request arrived
\* and starts no delivery task
C7_RejectedChangesNothing ==
  \A r \in Active :
    (reqs[r].pc = "done" /\ reqs[r].before.taken /\ reqs[r].kind # "preview") =>
      /\ (reqs[r].reason \in Rejections
            \/ (Expected(reqs[r]) # "none" /\ reqs[r].reason # "server")) =>
           /\ reqs[r].reason = Expected(reqs[r])
           /\ reqs[r].status = IF reqs[r].reason = "notfound" THEN 404 ELSE 400
           /\ campaigns = reqs[r].before.campaigns
           /\ outbox = reqs[r].before.outbox
           /\ reqs[r].d.started = <<>>
      /\ reqs[r].reason = "noaudience" =>
           campaigns[reqs[r].id].status \in {"draft", "scheduled"}

C7_Witness ==
  \E r \in Active :
    /\ reqs[r].kind = "send"
    /\ reqs[r].pc = "done"
    /\ reqs[r].reason = "noaudience"
    /\ campaigns[reqs[r].id].status = "scheduled"

StatusOf(store, c) == store[c].status

\* C9: a stored status becomes sent only in the step that ends a sendCampaign
\* request for that campaign whose audience is not empty and whose dispatcher
\* run has returned; every other change of a stored status, and every
\* status createCampaign stores, gives draft or scheduled (or no document)
C9_SentOnlyByDispatch ==
  [][\A c \in CampaignIds :
       StatusOf(campaigns', c) # StatusOf(campaigns, c) =>
         IF StatusOf(campaigns', c) = "sent"
           THEN \E r \in Slots :
                  /\ reqs[r].kind = "send"
                  /\ reqs[r].id = c
                  /\ reqs[r].pc = "save"
                  /\ reqs'[r].pc = "done"
                  /\ reqs'[r].status = 200
                  /\ Len(reqs[r].audience) > 0
                  /\ reqs[r].d.pc = "returned"
                  /\ Len(reqs[r].d.started) = Len(reqs[r].audience)
           ELSE StatusOf(campaigns', c) \in {"draft", "scheduled", "absent"}]_vars

C9_Witness ==
  \E r \in Active :
    /\ reqs[r].kind = "send"
    /\ reqs[r].pc = "done"
    /\ reqs[r].status = 200
    /\ reqs[r].seen = "scheduled"
    /\ campaigns[reqs[r].id].status = "sent"


\* the runs of sendCampaignEmails called on its own that have started
Runs == {r \in Slots : reqs[r].kind = "dispatch" /\ reqs[r].pc \in {"dispatch", "done"}}

Ceil(n, m) == (n + m - 1) \div m

Ids(audience) == [k \in 1..Len(audience) |-> audience[k].id]

\* C3: whatever the audience and whatever each delivery ends with (a success
\* result, a failure result, a thrown error), the result sendCampaignEmails
\* returns has total equal to the audience length, successCount +
\* failureCount equal to total, and exactly failureCount failedEmails
C3_CountsAddUp ==
  \A r \in Runs :
    reqs[r].pc = "done" =>
      LET result == DispatchResult(reqs[r].d)
      IN  /\ result.total = Len(reqs[r].audience)
          /\ result.successCount + result.failureCount = result.total
          /\ Len(result.failedEmails) = result.failureCount

C3_Witness ==
  \E r \in Runs :
    /\ reqs[r].pc = "done"
    /\ Len(reqs[r].audience) > BATCH_SIZE
    /\ \A o \in Outcomes : \E k \in 1..Len(reqs[r].d.outcomes) : reqs[r].d.outcomes[k] = o
    /\ reqs[r].d.successCount > 0
    /\ reqs[r].d.failureCount > 1

\* the error a failed delivery is to be recorded with, "none" for a success
ErrorOf(campaign, outcome) ==
  IF ~Has(campaign, "message") \/ ~Has(campaign, "subject") THEN "TypeError"
  ELSE IF outcome = "ok" THEN "none"
  ELSE IF outcome = "fail" THEN "rejected"
  ELSE "thrown"

\* the failedEmails a run must end with: one entry for each member whose
\* delivery did not succeed, in audience order
FailuresOf(req) ==
  LET n == Len(req.audience)
      failing == SelectSeq([k \in 1..n |-> k],
                           LAMBDA k : ErrorOf(req.campaign, req.d.outcomes[k]) # "none")
  IN  [f \in 1..Len(failing) |->
         [email |-> req.audience[failing[f]].email,
          error |-> ErrorOf(req.campaign, req.d.outcomes[failing[f]])]]

\* C4: in a run of sendCampaignEmails the delivery tasks started so far are
\* those of a prefix of the audience, one task per member; the run ends
\* without raising, with one task started for every member whatever the
\* other deliveries ended with, and with failedEmails holding an
\* {email, error} entry for exactly the members whose delivery returned
\* success:false or threw, in delivery or in personalization
C4_EveryMemberAttemptedOnce ==
  \A r \in Runs :
    /\ reqs[r].d.started = SubSeq(Ids(reqs[r].audience), 1, Len(reqs[r].d.started))
    /\ reqs[r].pc = "done" =>
         /\ reqs[r].d.started = Ids(reqs[r].audience)
         /\ reqs[r].status = 200
         /\ reqs[r].reason = "returned"
         /\ reqs[r].d.failedEmails = FailuresOf(reqs[r])
         /\ reqs[r].d.successCount = Len(reqs[r].audience) - Len(FailuresOf(reqs[r]))

C4_Witness ==
  \E r \in Runs :
    /\ reqs[r].pc = "done"
    /\ Len(reqs[r].audience) = BATCH_SIZE + 1
    /\ Has(reqs[r].campaign, "subject")
    /\ reqs[r].d.outcomes[1] = "fail"
    /\ reqs[r].d.outcomes[BATCH_SIZE] = "throw"
    /\ reqs[r].d.outcomes[BATCH_SIZE + 1] = "ok"
    /\ Len(reqs[r].d.failedEmails) = 2
    /\ reqs[r].d.failedEmails[2].error = "thrown"

\* C5: the waves of a run are consecutive slices of the audience in
\* audience order, every wave but the last of exactly BATCH_SIZE customers;
\* a run over n customers ends after ceil(n / BATCH_SIZE) waves; the
\* inter-wave delay has been waited once for each wave but the latest and is
\* never waited after the last wave, so a run over n >= 1 customers ends
\* after ceil(n / BATCH_SIZE) - 1 delays (none when n = 0, where there is
\* no wave)
C5_WavesAndDelays ==
  \A r \in Runs :
    LET d == reqs[r].d
        n == Len(reqs[r].audience)
        last == Ceil(n, BATCH_SIZE)
    IN  /\ Len(d.waves) <= last
        /\ \A w \in 1..Len(d.waves) : d.waves[w] = IF w < last THEN BATCH_SIZE
                                                              ELSE n - (last - 1) * BATCH_SIZE
        /\ d.started = SubSeq(Ids(reqs[r].audience), 1, Min(Len(d.waves) * BATCH_SIZE, n))
        /\ d.delays = IF Len(d.waves) = 0 THEN 0 ELSE Len(d.waves) - 1
        /\ d.pc = "delay" => Len(d.waves) < last
        /\ reqs[r].pc = "done" =>
             /\ Len(d.waves) = last
             /\ n >= 1 => d.delays = last - 1

C5_Witness ==
  \E r \in Runs :
    /\ reqs[r].pc = "done"
    /\ Len(reqs[r].audience) = 2 * BATCH_SIZE + 1
    /\ reqs[r].d.waves = <<BATCH_SIZE, BATCH_SIZE, 1>>
    /\ reqs[r].d.delays = 2

\* C6: a run starts delivery tasks only when none of its earlier tasks is
\* outstanding and the results of every task started before are in the
\* counters; at no moment are more than BATCH_SIZE deliveries outstanding
C6_WavesDoNotOverlap ==
  /\ [](\A r \in Slots : reqs[r].d.outstanding <= BATCH_SIZE)
  /\ [][\A r \in Slots :
          reqs'[r].d.started # reqs[r].d.started =>
            /\ reqs[r].d.outstanding = 0
            /\ reqs[r].d.successCount + reqs[r].d.failureCount = Len(reqs[r].d.started)]_vars

C6_Witness ==
  \E r \in Runs :
    /\ Len(reqs[r].d.waves) = 2
    /\ reqs[r].d.outstanding > 0
    /\ reqs[r].d.outstanding < reqs[r].d.waves[2]
    /\ reqs[r].d.successCount + reqs[r].d.failureCount = BATCH_SIZE
    /\ reqs[r].d.failureCount > 0


\* the sendCampaign requests answered with success
SendsDone == {r \in Slots : reqs[r].kind = "send" /\ reqs[r].pc = "done" /\ reqs[r].status = 200}

\* C2: the step that completes a sendCampaign request leaves the stored
\* campaign with status sent, delivered = successCount, failed =
\* failureCount, targetAudience = the size of the audience, and a
\* communicationLog that is exactly one entry per audience member in
\* audience order, whatever log was stored before; an entry is failed
\* exactly when the member's email is in failedEmails, the failed entries
\* number failed, the delivered entries number delivered, and delivered +
\* failed is the length of the log
C2_StoredAfterSend ==
  [][\A r \in Slots :
       (reqs[r].kind = "send" /\ reqs[r].pc = "save"
          /\ reqs'[r].pc = "done" /\ reqs'[r].status = 200) =>
         LET result == DispatchResult(reqs[r].d)
             audience == reqs[r].audience
             stored == campaigns'[reqs[r].id]
             log == stored.communicationLog
             Entries(st) == Cardinality({k \in 1..Len(log) : log[k].status = st})
         IN  /\ reqs[r].seen # "sent"
             /\ Len(audience) > 0
             /\ stored.status = "sent"
             /\ stored.delivered = result.successCount
             /\ stored.failed = result.failureCount
             /\ stored.targetAudience = Len(audience)
             /\ Len(log) = Len(audience)
             /\ \A k \in 1..Len(log) :
                  /\ log[k].customerId = audience[k].id
                  /\ log[k].status \in {"delivered", "failed"}
                  /\ log[k].status = "failed" <=>
                       \E f \in 1..Len(result.failedEmails) :
                         result.failedEmails[f].email = audience[k].email
             /\ Entries("failed") = stored.failed
             /\ Entries("delivered") = stored.delivered
             /\ stored.delivered + stored.failed = Len(log)]_vars

\* two sends of one campaign have completed, the later one for a smaller
\* audience than the log the earlier one stored
C2_Witness ==
  \E r \in SendsDone, o \in SendsDone :
    /\ reqs[r].id = reqs[o].id
    /\ Len(reqs[o].audience) = Len(InitCustomers)
    /\ Len(reqs[r].audience) = 1
    /\ Len(campaigns[reqs[r].id].communicationLog) = 1
    /\ campaigns[reqs[r].id].failed = 1


\* C8: with handlers run one at a time and every delivery settling in the
\* end, a sendCampaign request that found its campaign not sent and resolved
\* a non-empty audience is in the end answered with success with status
\* sent stored, however many of its deliveries fail
C8_SendEndsSent ==
  \A r \in Slots :
    (reqs[r].kind = "send" /\ reqs[r].pc = "dispatch")
      ~> (reqs[r].kind = "send" /\ reqs[r].pc = "done" /\ reqs[r].status = 200
            /\ campaigns[reqs[r].id].status = "sent")

\* a send has completed with every delivery failed
C8_Witness ==
  \E r \in SendsDone :
    /\ Len(reqs[r].audience) = Len(InitCustomers)
    /\ reqs[r].d.failureCount = Len(reqs[r].audience)
    /\ campaigns[reqs[r].id].status = "sent"
    /\ campaigns[reqs[r].id].delivered = 0
    /\ campaigns[reqs[r].id].failed = Len(reqs[r].audience)


\* the previewCampaignAudience requests answered with an audience
PreviewsDone == {r \in Slots : reqs[r].kind = "preview" /\ reqs[r].pc = "done" /\ reqs[r].status = 200}

NonSpend(rules) == SelectSeq(rules, LAMBDA rule : rule.field # "totalSpendings")

\* the rule set has non-spend rules and all of them are marked OR
SingleOrGroup(rules) ==
  /\ Len(NonSpend(rules)) >= 1
  /\ \A k \in 1..Len(NonSpend(rules)) : NonSpend(rules)[k].logicOperator = "OR"

\* the ids of the customers matched by at least one non-spend rule
UnionOfMatches(rules, custs) ==
  {custs[c].id : c \in {c \in 1..Len(custs) :
                          \E k \in 1..Len(NonSpend(rules)) :
                            MatchCondition(custs[c], RuleCondition(NonSpend(rules)[k]))}}

IdSet(audience) == {audience[k].id : k \in 1..Len(audience)}

\* the ids of the customers every totalSpendings rule keeps
KeptBySpend(rules, custs, ords) ==
  {custs[c].id : c \in {c \in 1..Len(custs) : IncludeCustomer(custs[c], SpendingRules(rules), ords)}}

\* C10 as stated: for a rule set whose non-spend rules form one OR-group the
\* resolved audience is the union of the customers matched by each rule of
\* the group
C10_AudienceIsUnion ==
  \A r \in PreviewsDone :
    SingleOrGroup(reqs[r].body.segmentRules) =>
      IdSet(reqs[r].audience) = UnionOfMatches(reqs[r].body.segmentRules, customers)

\* C10: for a rule set whose non-spend rules form one OR-group the resolved
\* audience is the union of the customers matched by each rule of the
\* group, less the customers some totalSpendings rule of the set excludes
C10_AudienceIsUnionKeptBySpend ==
  \A r \in PreviewsDone :
    SingleOrGroup(reqs[r].body.segmentRules) =>
      IdSet(reqs[r].audience) =
        UnionOfMatches(reqs[r].body.segmentRules, customers)
          \cap KeptBySpend(reqs[r].body.segmentRules, customers, orders)

C10_Witness ==
  \E r \in PreviewsDone :
    /\ SingleOrGroup(reqs[r].body.segmentRules)
    /\ Len(NonSpend(reqs[r].body.segmentRules)) = 2
    /\ Len(SpendingRules(reqs[r].body.segmentRules)) = 1
    /\ UnionOfMatches(reqs[r].body.segmentRules, customers) = IdSet(customers)
    /\ IdSet(reqs[r].audience) = {1}


\* the rule set of a preview request
RulesIn(r) == reqs[r].body.segmentRules

IsNumeric(value) == ~parseFloat(value).isNaN

\* the sum of the prices of the stored orders of a customer
TotalOf(customer) ==
  LET mine == SelectSeq(orders, LAMBDA o : o.customerId = customer.id)
      RECURSIVE Sum(_)
      Sum(k) == IF k = 0 THEN 0 ELSE mine[k].price + Sum(k - 1)
  IN  Sum(Len(mine))

\* a total s against a spend rule with a numeric value v
Satisfies(s, rule) ==
  LET v == parseFloat(rule.value).num
  IN  CASE rule.operator = "greaterThan" -> s > v
        [] rule.operator = "lessThan"    -> s < v
        [] rule.operator = "equals"      -> s = v
        [] OTHER                         -> TRUE

SpendOnly(rules) ==
  /\ Len(rules) >= 1
  /\ NonSpend(rules) = <<>>
  /\ \A k \in 1..Len(rules) : IsNumeric(rules[k].value)

\* C11: for a rule set made of totalSpendings rules only (with numeric
\* values) the query handed to Customer.find is the match-everything query
\* {} and the resolved audience is exactly the stored customers whose total
\* satisfies every one of the rules
C11_SpendOnlyFiltersEveryone ==
  \A r \in PreviewsDone :
    SpendOnly(RulesIn(r)) =>
      /\ BuildQuery(RulesIn(r)) = <<>>
      /\ IdSet(reqs[r].audience) =
           {customers[c].id : c \in {c \in 1..Len(customers) :
              \A k \in 1..Len(RulesIn(r)) : Satisfies(TotalOf(customers[c]), RulesIn(r)[k])}}

C11_Witness ==
  \E r \in PreviewsDone :
    /\ SpendOnly(RulesIn(r))
    /\ Len(RulesIn(r)) = 2
    /\ RulesIn(r)[1].operator = "lessThan"
    /\ RulesIn(r)[2].operator = "lessThan"
    /\ IdSet(reqs[r].audience) = {3}


\* the preview requests answered for a single totalSpendings rule with a
\* numeric value
SingleSpendRule(r) ==
  /\ r \in PreviewsDone
  /\ Len(RulesIn(r)) = 1
  /\ RulesIn(r)[1].field = "totalSpendings"
  /\ IsNumeric(RulesIn(r)[1].value)

\* C12: a customer whose orders' prices sum to s (0 without orders) is kept
\* by a totalSpendings rule with numeric value v exactly when s > v for
\* greaterThan, s < v for lessThan and s = v for equals; a customer with
\* s = v is kept by neither greaterThan nor lessThan
C12_SpendComparisonsAreStrict ==
  \A r \in Slots :
    SingleSpendRule(r) =>
      LET rule == RulesIn(r)[1]
          v == parseFloat(rule.value).num
      IN  \A c \in 1..Len(customers) :
            LET s == TotalOf(customers[c])
                kept == customers[c].id \in IdSet(reqs[r].audience)
            IN  /\ rule.operator = "greaterThan" => (kept <=> s > v)
                /\ rule.operator = "lessThan" => (kept <=> s < v)
                /\ rule.operator = "equals" => (kept <=> s = v)
                /\ (s = v /\ rule.operator \in {"greaterThan", "lessThan"}) => ~kept

\* lessThan 100 keeps the customer without orders and not the one whose
\* orders sum to 100
C12_Witness ==
  \E r \in Slots :
    /\ SingleSpendRule(r)
    /\ RulesIn(r)[1].operator = "lessThan"
    /\ \E c \in 1..Len(customers) :
         TotalOf(customers[c]) = parseFloat(RulesIn(r)[1].value).num
    /\ \E c \in 1..Len(customers) :
         /\ TotalOf(customers[c]) = 0
         /\ IdSet(reqs[r].audience) = {customers[c].id}


\* C13: every customer of a resolved audience matches the query built from
\* the non-spend rules and satisfies every totalSpendings rule of the rule
\* set that has a numeric value, whatever the logicOperator of that rule
\* and whatever its position among the rules
C13_SpendRulesAreConjoined ==
  \A r \in PreviewsDone :
    \A a \in 1..Len(reqs[r].audience) :
      /\ MatchQuery(reqs[r].audience[a], BuildQuery(RulesIn(r)))
      /\ \A k \in 1..Len(RulesIn(r)) :
           (RulesIn(r)[k].field = "totalSpendings" /\ IsNumeric(RulesIn(r)[k].value)) =>
             Satisfies(TotalOf(reqs[r].audience[a]), RulesIn(r)[k])

\* a spend rule marked OR in first position, followed by a rule marked OR
\* that matches a customer the spend rule excludes
C13_Witness ==
  \E r \in PreviewsDone :
    /\ Len(RulesIn(r)) = 2
    /\ RulesIn(r)[1].field = "totalSpendings"
    /\ RulesIn(r)[1].logicOperator = "OR"
    /\ RulesIn(r)[2].field # "totalSpendings"
    /\ RulesIn(r)[2].logicOperator = "OR"
    /\ IdSet(reqs[r].audience) # {}
    /\ IdSet(reqs[r].audience) # UnionOfMatches(RulesIn(r), customers)
    /\ IdSet(reqs[r].audience) \subseteq UnionOfMatches(RulesIn(r), customers)


\* C14 as stated: a rule set holding a totalSpendings greaterThan or
\* lessThan rule whose value does not parse as a number resolves to an
\* audience without any customer
C14_NonNumericNeverMatches ==
  \A r \in PreviewsDone :
    (\E k \in 1..Len(RulesIn(r)) :
       /\ RulesIn(r)[k].field = "totalSpendings"
       /\ RulesIn(r)[k].operator \in {"greaterThan", "lessThan"}
       /\ ~IsNumeric(RulesIn(r)[k].value)) =>
      reqs[r].audience = <<>>


\* C15 as stated: a run of sendCampaignEmails for a campaign without a
\* message never returns a result to its caller
C15_MissingTemplateRaises ==
  \A r \in Runs :
    ~Has(reqs[r].campaign, "message") =>
      ~(reqs[r].pc = "done" /\ reqs[r].reason = "returned")


\* the create and update requests answered with success
WritesDone ==
  {r \in Slots : reqs[r].kind \in {"create", "update"} /\ reqs[r].pc = "done"
                    /\ reqs[r].reason = "ok"}

\* C16 as stated: with handlers run one at a time, the status a create or
\* update request has stored is scheduled exactly when the scheduledFor of
\* the request lies in the future, and draft in every other case, a
\* scheduledFor in the past included
C16_ScheduledOnlyForFuture ==
  \A r \in WritesDone :
    campaigns[reqs[r].id].status =
      IF reqs[r].body.scheduledFor = "future" THEN "scheduled" ELSE "draft"


\* C17 as stated: in every reachable state a stored campaign with status
\* draft has no stored scheduledFor
C17_DraftHasNoScheduledFor ==
  \A c \in CampaignIds :
    campaigns[c].status = "draft" => campaigns[c].scheduledFor = "null"


\* C18: in every state reached by create, update, send and delete requests
\* the status of each stored campaign is draft, scheduled or sent, never
\* failed
C18_NeverFailed ==
  \A c \in CampaignIds :
    campaigns[c] # NoDoc => campaigns[c].status \in {"draft", "scheduled", "sent"}

\* a campaign is stored as sent although none of its deliveries succeeded,
\* beside a campaign that is not sent
C18_Witness ==
  \E c \in CampaignIds, o \in CampaignIds :
    /\ campaigns[c].status = "sent"
    /\ campaigns[c].delivered = 0
    /\ campaigns[c].failed = Len(InitCustomers)
    /\ campaigns[o].status \in {"draft", "scheduled"}


\* some stored order references the customer
Referenced(id) == \E o \in 1..Len(orders) : orders[o].customerId = id

\* C19: with customer and order handlers run one at a time, every stored
\* order references a stored customer; a deleteCustomer request for a
\* customer that at least one order references is answered 400 and deletes
\* nothing; a createOrder or updateOrder request with a valid body that
\* names a customer that does not exist is answered 404 and stores nothing
C19_OrdersReferenceCustomers ==
  /\ [](\A o \in 1..Len(orders) : CustomerExists(orders[o].customerId))
  /\ [][(reqs'[1].kind = "deleteCustomer" /\ Referenced(reqs'[1].id)) =>
          (reqs'[1].status = 400 /\ customers' = customers)]_vars
  /\ [][(reqs'[1].kind \in {"createOrder", "updateOrder"}
            /\ orderSchema(reqs'[1].body)
            /\ ~CustomerExists(reqs'[1].body.customerId)) =>
          (reqs'[1].status = 404 /\ orders' = orders)]_vars

\* a customer without orders has been deleted, and the deletion of a
\* customer that a stored order references has just been rejected
C19_Witness ==
  /\ reqs[1].kind = "deleteCustomer"
  /\ reqs[1].status = 400
  /\ Referenced(reqs[1].id)
  /\ CustomerExists(reqs[1].id)
  /\ Len(customers) < Len(InitCustomers)
  /\ \E o \in 1..Len(orders) : orders[o] \notin {InitOrders[i] : i \in 1..Len(InitOrders)}


\* C20 as stated: when two sendCampaign requests for one campaign have both
\* passed the status check and completed, some audience member has been
\* delivered the message of the campaign twice
C20_ConcurrentSendsDeliverTwice ==
  \A r \in SendsDone, o \in SendsDone :
    (r # o /\ reqs[r].id = reqs[o].id) =>
      \E k \in 1..Len(reqs[r].audience) :
        \E call \in BagToSet(outbox) :
          /\ call.campaign = reqs[r].id
          /\ call.email.to = reqs[r].audience[k].email
          /\ CopiesIn(call, outbox) >= 2

\* the text with every occurrence of the placeholder, in any letter case,
\* replaced by the given token as it stands
RECURSIVE Substituted(_, _, _, _)
Substituted(str, i, placeholder, token) ==
  IF i > Len(str) THEN <<>>
  ELSE IF MatchesAt(str, i, placeholder)
    THEN token \o Substituted(str, i + Len(placeholder), placeholder, token)
    ELSE <<str[i]>> \o Substituted(str, i + 1, placeholder, token)

\* C21: for every customer a message is sent to, each {customername} of the
\* message, in any letter case, is replaced by the first space-delimited token
\* of the customer's name, or by "Valued Customer" when the name is absent or
\* empty, and {customerFirstName} of the subject gets the same replacement
C21_PlaceholdersBecomeFirstName ==
  \A r \in Slots : \A call \in BagToSet(outbox) :
    reqs[r].kind = "dispatch" /\ call.campaign = reqs[r].id =>
      \E k \in 1..Len(reqs[r].audience) :
        LET customer == reqs[r].audience[k]
            token == FirstNameOf(customer)
        IN  /\ call.email.to = customer.email
            /\ call.email.html.body =
                 Replace(Substituted(reqs[r].campaign.message, 1, Pattern_customername, token),
                         <<"\n">>, Str_br)
            /\ call.email.subject =
                 Substituted(reqs[r].campaign.subject, 1, Pattern_customerFirstName, token)

\* the same for the customers whose first name holds no dollar sign
C21_HoldsWithoutDollar ==
  \A r \in Slots : \A call \in BagToSet(outbox) :
    reqs[r].kind = "dispatch" /\ call.campaign = reqs[r].id =>
      \E k \in 1..Len(reqs[r].audience) :
        LET customer == reqs[r].audience[k]
            token == FirstNameOf(customer)
        IN  /\ call.email.to = customer.email
            /\ (\A j \in 1..Len(token) : token[j] # "$") =>
                 /\ call.email.html.body =
                      Replace(Substituted(reqs[r].campaign.message, 1,
                                          Pattern_customername, token),
                              <<"\n">>, Str_br)
                 /\ call.email.subject =
                      Substituted(reqs[r].campaign.subject, 1,
                                  Pattern_customerFirstName, token)

\* C22: the step in which calculateTargetAudience returns or raises, whichever
\* handler called it, changes no stored customer, order or campaign, and no
\* step of a previewCampaignAudience request changes any stored state
C22_ResolutionIsReadOnly ==
  [][\A r \in Slots :
       /\ reqs[r].pc = "resolve" /\ reqs'[r] # reqs[r] =>
            UNCHANGED <<customers, orders, campaigns>>
       /\ (reqs[r].kind = "preview" \/ reqs'[r].kind = "preview") /\ reqs'[r] # reqs[r] =>
            UNCHANGED <<customers, orders, campaigns, nextId, outbox>>]_vars

C22_Witness ==
  /\ Exists(1)
  /\ \E r \in Slots :
       /\ reqs[r].kind = "preview"
       /\ reqs[r].pc = "done"
       /\ reqs[r].status = 200
       /\ Len(reqs[r].audience) > 0

\* the fold over the non-spend rules, left to right: a rule marked OR joins
\* the open group; any other rule closes the open group, if there is one, and
\* is a group of its own; f is [groups, open]
RECURSIVE ReferenceFold(_, _, _)
ReferenceFold(f, rules, i) ==
  IF i > Len(rules)
    THEN IF f.open # <<>> THEN Append(f.groups, f.open) ELSE f.groups
  ELSE IF rules[i].logicOperator = "OR"
    THEN ReferenceFold([f EXCEPT !.open = Append(@, RuleCondition(rules[i]))], rules, i + 1)
    ELSE ReferenceFold([groups |-> (IF f.open # <<>> THEN Append(f.groups, f.open)
                                                     ELSE f.groups)
                                     \o << <<RuleCondition(rules[i])>> >>,
                        open |-> <<>>],
                       rules, i + 1)

ReferenceGroups(rules) == ReferenceFold([groups |-> <<>>, open |-> <<>>], NonSpend(rules), 1)

\* the built query as a sequence of groups, a bare condition being a group of one
GroupsOf(query) ==
  [k \in 1..Len(query) |-> IF query[k].kind = "or" THEN query[k].conds ELSE <<query[k]>>]

MatchGroups(customer, groups) ==
  \A g \in 1..Len(groups) : \E k \in 1..Len(groups[g]) : MatchCondition(customer, groups[g][k])

\* C23: for every ordered rule sequence the query built is the conjunction of
\* the groups of the reference fold, each maximal run of non-spend rules
\* marked OR being one disjunction and every other non-spend rule a group of
\* its own, and the customers found are the ones that satisfy every group
C23_QueryIsReferenceFold ==
  \A r \in Slots :
    reqs[r].kind = "preview" /\ reqs[r].pc \in {"resolve", "done"} =>
      LET rules == reqs[r].body.segmentRules
      IN  /\ GroupsOf(BuildQuery(rules)) = ReferenceGroups(rules)
          /\ CustomerFind(customers, BuildQuery(rules)) =
               SelectSeq(customers, LAMBDA c : MatchGroups(c, ReferenceGroups(rules)))
          /\ reqs[r].pc = "done" /\ reqs[r].status = 200 =>
               IdSet(reqs[r].audience) =
                 {customers[c].id : c \in {c \in 1..Len(customers) :
                                             MatchGroups(customers[c], ReferenceGroups(rules))}}
                   \cap KeptBySpend(rules, customers, orders)

\* an OR rule first, a spend rule, an OR rule last: one group of two
C23_Witness ==
  \E r \in PreviewsDone :
    LET rules == reqs[r].body.segmentRules
    IN  /\ Len(rules) = 3
        /\ rules[1].field # "totalSpendings" /\ rules[1].logicOperator = "OR"
        /\ rules[2].field = "totalSpendings"
        /\ rules[3].field # "totalSpendings" /\ rules[3].logicOperator = "OR"
        /\ RuleCondition(rules[1]) # RuleCondition(rules[3])
        /\ Len(BuildQuery(rules)) = 1
        /\ Len(reqs[r].audience) > 0
        /\ Len(reqs[r].audience) < Len(customers)

\* the ids of the stored customers one rule matches
MatchesOf(rule, custs) ==
  {custs[c].id : c \in {c \in 1..Len(custs) : MatchCondition(custs[c], RuleCondition(rule))}}

\* a rule set [A, B] of non-spend rules, A marked AND or not marked, B marked OR
AndThenOr(rules) ==
  /\ Len(rules) = 2
  /\ rules[1].field # "totalSpendings" /\ rules[1].logicOperator # "OR"
  /\ rules[2].field # "totalSpendings" /\ rules[2].logicOperator = "OR"

\* C24: for a two-rule set [A, B] where A is marked AND, or not marked, and B
\* is marked OR, the resolved audience is the intersection of the matches of
\* A and of B: B is not disjoined with the rule before it
C24_OrAfterAndIsConjoined ==
  \A r \in PreviewsDone :
    AndThenOr(reqs[r].body.segmentRules) =>
      IdSet(reqs[r].audience) =
        MatchesOf(reqs[r].body.segmentRules[1], customers)
          \cap MatchesOf(reqs[r].body.segmentRules[2], customers)

C24_Witness ==
  \E r \in PreviewsDone :
    LET rules == reqs[r].body.segmentRules
    IN  /\ AndThenOr(rules)
        /\ rules[1].logicOperator = "none"
        /\ Len(reqs[r].audience) > 0
        /\ IdSet(reqs[r].audience) # MatchesOf(rules[1], customers) \cup MatchesOf(rules[2], customers)
        /\ IdSet(reqs[r].audience) # MatchesOf(rules[1], customers)
        /\ IdSet(reqs[r].audience) # MatchesOf(rules[2], customers)

\* C25: the write of an updateCampaign or deleteCampaign request that passed
\* its status check before a sendCampaign request for the same campaign
\* saved status sent neither sets the stored status back to draft or
\* scheduled nor deletes the sent campaign
C25_SentStaysTerminalUnderRace ==
  [][\A r \in Slots :
       /\ reqs[r].kind \in {"update", "delete"}
       /\ reqs[r].pc \in {"write", "remove"}
       /\ reqs'[r] # reqs[r]
       /\ Exists(reqs[r].id)
       /\ campaigns[reqs[r].id].status = "sent"
       => /\ campaigns'[reqs[r].id] # NoDoc
          /\ campaigns'[reqs[r].id].status = "sent"]_vars

\* C26: sendCampaign reads the campaign once before the dispatch and writes it
\* once after the dispatcher has returned: while a wave is in flight or an
\* inter-wave delay is pending the stored campaign is the one the request
\* found, with its status, counters and communicationLog, and the only step
\* of the request that writes the store is its save
C26_StoredUnchangedDuringDispatch ==
  /\ [](\A r \in Slots :
          reqs[r].kind = "send" /\ reqs[r].pc \in {"find", "resolve", "dispatch", "save"} =>
            campaigns[reqs[r].id] = Target(reqs[r]))
  /\ [][campaigns' # campaigns =>
          \E r \in Slots : /\ reqs[r].kind = "send"
                           /\ reqs[r].pc = "save"
                           /\ reqs'[r].pc = "done"
                           /\ reqs'[r].status = 200]_vars

\* the first wave is counted, the delay before the second wave is pending
C26_Witness ==
  \E r \in Slots :
    /\ reqs[r].kind = "send"
    /\ reqs[r].pc = "dispatch"
    /\ reqs[r].d.pc = "delay"
    /\ reqs[r].d.failureCount = BATCH_SIZE
    /\ Len(reqs[r].audience) > BATCH_SIZE
    /\ campaigns[reqs[r].id].status = "draft"
    /\ campaigns[reqs[r].id].failed = 0
    /\ campaigns[reqs[r].id].communicationLog = <<>>

\* C27: under every interleaving of deleteCustomer with createOrder or
\* updateOrder for the same customer, every stored order references a stored
\* customer
C27_NoOrderOfDeletedCustomer ==
  \A o \in 1..Len(orders) : CustomerExists(orders[o].customerId)

\* C28: the subject createCampaign extracts from a message of the form
\* "Subject: S", empty line, body is stored with the campaign, the stored
\* message being the body alone, and a sendCampaign of a stored campaign
\* passes the stored subject, with {customerFirstName} replaced, as the
\* subject of a delivery to every member of the audience
C28_SubjectStoredAndSent ==
  /\ \A r \in Slots :
       /\ reqs[r].kind = "create"
       /\ reqs[r].pc = "done"
       /\ reqs[r].status = 201
       /\ SubjectStarts(reqs[r].body.message) # {}
       => /\ campaigns[reqs[r].id].message = ExtractSubject(reqs[r].body.message).body
          /\ Has(campaigns[reqs[r].id], "subject")
          /\ campaigns[reqs[r].id].subject = ExtractSubject(reqs[r].body.message).subject
  /\ \A r \in Slots :
       reqs[r].kind = "send" /\ reqs[r].pc = "done" /\ reqs[r].status = 200 =>
         \A k \in 1..Len(reqs[r].audience) :
           \E call \in BagToSet(outbox) :
             /\ call.campaign = reqs[r].id
             /\ call.email.to = reqs[r].audience[k].email
             /\ Has(reqs[r].campaign, "subject")
             /\ call.email.subject =
                  Replace(reqs[r].campaign.subject, Pattern_customerFirstName,
                          FirstNameOf(reqs[r].audience[k]))

\* the part of it the code keeps: the stored message is the body alone
C28_BodyStoredAlone ==
  \A r \in Slots :
    /\ reqs[r].kind = "create"
    /\ reqs[r].pc = "done"
    /\ reqs[r].status = 201
    /\ SubjectStarts(reqs[r].body.message) # {}
    => campaigns[reqs[r].id].message = ExtractSubject(reqs[r].body.message).body

\* the resolution of the request calls the spend aggregation: its rules have
\* a spend rule and Customer.find returns a candidate
Aggregates(req) ==
  /\ SpendingRules(RulesOf(req)) # <<>>
  /\ CustomerFind(customers, BuildQuery(RulesOf(req))) # <<>>

\* C29: a resolution that calls the spend aggregation either returns the
\* audience computed from the stored orders or fails as a whole; when it
\* fails the request is answered with status 500, has no audience, no
\* delivery is started and, for sendCampaign, the stored campaign is the one
\* stored when the request arrived
C29_AggregationFailureFailsRequest ==
  [][\A r \in Slots :
       reqs[r].pc = "resolve" /\ reqs'[r] # reqs[r] /\ Aggregates(reqs[r]) =>
         \/ /\ reqs'[r].audience =
                 calculateTargetAudience(RulesOf(reqs[r]), customers, orders)
            /\ reqs'[r].reason # "server"
         \/ /\ reqs'[r].pc = "done"
            /\ reqs'[r].status = 500
            /\ reqs'[r].reason = "server"
            /\ reqs'[r].audience = <<>>
            /\ reqs'[r].d.started = <<>>
            /\ outbox' = outbox
            /\ reqs[r].kind = "send" =>
                 /\ campaigns' = campaigns
                 /\ campaigns[reqs[r].id] = Target(reqs[r])]_vars

C29_Witness ==
  \E r \in Slots :
    /\ reqs[r].kind = "send"
    /\ reqs[r].pc = "done"
    /\ reqs[r].status = 500
    /\ reqs[r].reason = "server"
    /\ Aggregates(reqs[r])
    /\ campaigns[reqs[r].id] = Target(reqs[r])
    /\ campaigns[reqs[r].id].status # "sent"
    /\ outbox = EmptyBag

\* C30: whenever createCampaign answers with an error, also when audience
\* resolution fails after validation succeeded, the stored campaigns are the
\* ones stored when the request arrived
C30_CreateIsAllOrNothing ==
  \A r \in Slots :
    /\ reqs[r].kind = "create"
    /\ reqs[r].pc = "done"
    /\ reqs[r].status >= 400
    => campaigns = reqs[r].before.campaigns

\* the same for the errors answered before Campaign.create
C30_RejectedCreateStoresNothing ==
  \A r \in Slots :
    /\ reqs[r].kind = "create"
    /\ reqs[r].pc = "done"
    /\ reqs[r].status >= 400
    /\ reqs[r].id = 0
    => campaigns = reqs[r].before.campaigns
====
